---- MODULE Spec2Model ----
(***************************************************************************)
(* A model of nano_dev_utils: the FileTreeDisplay renderer                 *)
(* (file_tree_display.py), the PredicateBuilder name filter (common.py),   *)
(* the command line (__main__.py), the Importer (dynamic_importer.py),     *)
(* PortsRelease (release_ports.py) and Timer (timers.py).                  *)
(*                                                                         *)
(* Text is modelled at character level: a string is a sequence of          *)
(* one-character strings.  Characters outside ASCII are written as the     *)
(* token naming their code point ("U2502" is one character).               *)
(***************************************************************************)
EXTENDS Integers, Sequences, FiniteSets, TLC

VARIABLES
    fs,      \* the filesystem the renderer reads: [root_name, is_dir, tree]
    self,    \* the FileTreeDisplay instance: one field per slot
    ret,     \* outcome of the last file_tree_display call
    disk,    \* where str2file writes: [writable, linesep, dirs, files]
    stdout,  \* texts printed so far
    pcall,   \* last direct call of a predicate, of format_style or of str2file
    cli,     \* last merge_config call: [called, argv, cfg_dict, merged]
    importer,\* the Importer instance and the outcome of its last call
    ports,   \* last PortsRelease.release_all call: its arguments and what it did
    timer    \* last call of a function decorated with Timer.timeit

\* the state of the renderer, and the state of the other modules
ftd == <<fs, self, ret, disk, stdout, pcall>>
others == <<cli, importer, ports, timer>>
vars == <<fs, self, ret, disk, stdout, pcall, cli, importer, ports, timer>>

(***************************************************************************)
(* Characters and strings                                                  *)
(***************************************************************************)
NL == "\n"
VBAR == "U2502"
TEE == "U251C"
ELL == "U2514"
HBAR == "U2500"
BQUOTE == "U0060"
BSLASH == "U005C"
\* carriage return
CR == "U000D"
\* superscript two: str.isdigit() accepts it, \d and int() do not
SUP2 == "U00B2"

Str1(a) == <<a>>
Str2(a, b) == <<a, b>>
Str3(a, b, c) == <<a, b, c>>

\* ' ' * n (the empty string when n <= 0)
Rep(c, n) == [i \in 1..n |-> c]

RECURSIVE Concat(_)
Concat(ss) == IF ss = <<>> THEN <<>> ELSE Head(ss) \o Concat(Tail(ss))

StartsWith(s, p) == Len(p) <= Len(s) /\ SubSeq(s, 1, Len(p)) = p
EndsWith(s, p) == Len(p) <= Len(s) /\ SubSeq(s, Len(s) - Len(p) + 1, Len(s)) = p

\* code point of a character (only the order matters)
Ord(c) ==
    CASE c = NL -> 10
      [] c = CR -> 13
      [] c = " " -> 32
      [] c = "*" -> 42
      [] c = "." -> 46
      [] c = "0" -> 48
      [] c = "1" -> 49
      [] c = "2" -> 50
      [] c = "?" -> 63
      [] c = "A" -> 65
      [] c = "B" -> 66
      [] c = "[" -> 91
      [] c = "]" -> 93
      [] c = "a" -> 97
      [] c = "b" -> 98
      [] c = "c" -> 99
      [] c = "d" -> 100
      [] c = "f" -> 102
      [] c = SUP2 -> 178
      [] OTHER -> 9000

Digits == {"0", "1", "2"}
DigitVal(c) == Ord(c) - 48

\* str.lower() on one character
LowerChar(c) ==
    CASE c = "A" -> "a"
      [] c = "B" -> "b"
      [] OTHER -> c

Lower(s) == [i \in 1..Len(s) |-> LowerChar(s[i])]

\* str < str: lexicographic on code points, a proper prefix is smaller
RECURSIVE StrLess(_, _)
StrLess(s, t) ==
    IF t = <<>> THEN FALSE
    ELSE IF s = <<>> THEN TRUE
    ELSE IF Head(s) # Head(t) THEN Ord(Head(s)) < Ord(Head(t))
    ELSE StrLess(Tail(s), Tail(t))

(***************************************************************************)
(* fnmatch.translate + re.fullmatch                                        *)
(***************************************************************************)
\* index of the ']' that closes the bracket opened just before rest[1],
\* or Len(rest) + 1 when there is none (fnmatch.translate's scan for j)
RECURSIVE ScanClose(_, _)
ScanClose(rest, j) ==
    IF j > Len(rest) THEN j
    ELSE IF rest[j] = "]" THEN j
    ELSE ScanClose(rest, j + 1)

\* j, one further when rest[j] is the character c
SkipChar(rest, j, c) == IF j <= Len(rest) /\ rest[j] = c THEN j + 1 ELSE j

BracketEnd(rest) == ScanClose(rest, SkipChar(rest, SkipChar(rest, 1, "!"), "]"))

CharSet(s) == {s[i] : i \in 1..Len(s)}

\* whether the character c is in the bracket expression [stuff]
InBracket(c, stuff) ==
    IF stuff = <<>> THEN FALSE
    ELSE IF stuff = Str1("!") THEN TRUE
    ELSE IF Head(stuff) = "!" THEN c \notin CharSet(Tail(stuff))
    ELSE c \in CharSet(stuff)

\* whether the compiled pattern pat matches the whole of name
RECURSIVE GlobMatch(_, _)
RECURSIVE GlobBracket(_, _, _)

\* the pattern '[' rest, where j is the index in rest of the closing ']'
GlobBracket(rest, name, j) ==
    IF j > Len(rest)
    THEN \* no closing bracket: a literal '['
         name # <<>> /\ Head(name) = "[" /\ GlobMatch(rest, Tail(name))
    ELSE /\ name # <<>>
         /\ InBracket(Head(name), SubSeq(rest, 1, j - 1))
         /\ GlobMatch(SubSeq(rest, j + 1, Len(rest)), Tail(name))

GlobMatch(pat, name) ==
    IF pat = <<>> THEN name = <<>>
    ELSE
      LET c == Head(pat)
          rest == Tail(pat)
      IN  CASE c = "*" ->
                 \/ GlobMatch(rest, name)
                 \/ name # <<>> /\ GlobMatch(pat, Tail(name))
            [] c = "?" ->
                 name # <<>> /\ GlobMatch(rest, Tail(name))
            [] c = "[" -> GlobBracket(rest, name, BracketEnd(rest))
            [] OTHER ->
                 name # <<>> /\ Head(name) = c /\ GlobMatch(rest, Tail(name))

(***************************************************************************)
(* PredicateBuilder                                                        *)
(***************************************************************************)
\* '*' in item or '?' in item or '[' in item
IsPattern(item) == \E i \in 1..Len(item) : item[i] \in {"*", "?", "["}

\* the compiled patterns are kept as a set: any() does not depend on order
compile_patts(filterset) ==
    IF filterset = {} THEN [lits |-> {}, patts |-> {}]
    ELSE [lits |-> {x \in filterset : ~IsPattern(x)},
          patts |-> {x \in filterset : IsPattern(x)}]

MatchPattsNever(name, patterns) == FALSE

\* any(pat.fullmatch(name) for pat in patterns)
_match_patts(name, patterns) == \E pat \in patterns : GlobMatch(pat, name)

\* return not res if negate else res
NotIf(negate, res) == IF negate THEN ~res ELSE res

_match_patt_with_lits(name, name_lits, name_patts, negate) ==
    NotIf(negate, name \in name_lits \/ _match_patts(name, name_patts))

AllowFirstPredicate(name, allow_lits, allow_patts, block_lits, block_patts) ==
    IF name \in allow_lits \/ _match_patts(name, allow_patts) THEN TRUE
    ELSE IF name \in block_lits \/ _match_patts(name, block_patts) THEN FALSE
    ELSE FALSE

_allow_block_predicate(name, allow_lits, allow_patts, block_lits, block_patts) ==
    IF name \in block_lits \/ _match_patts(name, block_patts) THEN FALSE
    ELSE IF name \in allow_lits \/ _match_patts(name, allow_patts) THEN TRUE
    ELSE FALSE

\* the callable build_predicate returns, as the data it closes over
build_predicate(allow, block) ==
    LET a == compile_patts(allow)
        b == compile_patts(block)
    IN  [flag |-> << IF a.lits # {} \/ a.patts # {} THEN 1 ELSE 0,
                     IF b.lits # {} \/ b.patts # {} THEN 1 ELSE 0 >>,
         allow_lits |-> a.lits, allow_patts |-> a.patts,
         block_lits |-> b.lits, block_patts |-> b.patts]

\* calling the predicate on a name
CallPredicate(pred, name) ==
    CASE pred.flag = <<0, 0>> -> TRUE
      [] pred.flag = <<0, 1>> ->
           _match_patt_with_lits(name, pred.block_lits, pred.block_patts, TRUE)
      [] pred.flag = <<1, 0>> ->
           _match_patt_with_lits(name, pred.allow_lits, pred.allow_patts, FALSE)
      [] pred.flag = <<1, 1>> ->
           _allow_block_predicate(name, pred.allow_lits, pred.allow_patts,
                                  pred.block_lits, pred.block_patts)

(***************************************************************************)
(* Sort keys                                                               *)
(***************************************************************************)
\* the longest prefix of s made of digits (digit = TRUE) or of non-digits
RECURSIVE Run(_, _)
Run(s, digit) ==
    IF s = <<>> \/ ((Head(s) \in Digits) # digit) THEN <<>>
    ELSE <<Head(s)>> \o Run(Tail(s), digit)

\* re.compile(r'(\d+)').split(name): text, digits, text, ..., text
Drop(s, n) == SubSeq(s, n + 1, Len(s))

RECURSIVE _NUM_SPLIT(_)
RECURSIVE SplitAfterText(_, _)
RECURSIVE SplitAfterDigits(_, _, _)

\* text is followed by the digits digs, and those by what is split next
SplitAfterDigits(text, digs, rest) == <<text, digs>> \o _NUM_SPLIT(Drop(rest, Len(digs)))

\* text is the run of non-digits that starts the name, rest is what follows it
SplitAfterText(text, rest) ==
    IF rest = <<>> THEN <<text>> ELSE SplitAfterDigits(text, Run(rest, TRUE), rest)

_NUM_SPLIT(name) == SplitAfterText(Run(name, FALSE), Drop(name, Len(Run(name, FALSE))))

\* str.isdigit()
IsDigitStr(part) == part # <<>> /\ \A i \in 1..Len(part) : part[i] \in Digits \cup {SUP2}

\* int(part) raises ValueError: part holds a character that is no decimal digit
IntRaises(part) == \E i \in 1..Len(part) : part[i] \notin Digits

\* int(part)
RECURSIVE IntOf(_)
IntOf(part) ==
    IF part = <<>> THEN 0
    ELSE 10 * IntOf(SubSeq(part, 1, Len(part) - 1)) + DigitVal(part[Len(part)])

\* a key part: an int, or a lowercased string
KeyPart(part) ==
    IF IsDigitStr(part) THEN [int |-> TRUE, n |-> IntOf(part), s |-> <<>>]
    ELSE [int |-> FALSE, n |-> 0, s |-> Lower(part)]

KeyParts(parts) == [i \in 1..Len(parts) |-> KeyPart(parts[i])]

_nat_key(name) == KeyParts(_NUM_SPLIT(name))

\* _nat_key(name) raises ValueError
NatKeyRaises(parts) == \E i \in 1..Len(parts) : IsDigitStr(parts[i]) /\ IntRaises(parts[i])

_lex_key(name) == Lower(name)

PartLess(p, q) == IF p.int THEN p.n < q.n ELSE StrLess(p.s, q.s)

\* list < list
RECURSIVE ListLess(_, _)
ListLess(k, l) ==
    IF l = <<>> THEN FALSE
    ELSE IF k = <<>> THEN TRUE
    ELSE IF Head(k) # Head(l) THEN PartLess(Head(k), Head(l))
    ELSE ListLess(Tail(k), Tail(l))

\* key(x) < key(y) for the key functions a sort_keys entry can hold;
\* "len" and "neglen" stand for a caller's custom_sort functions (the builtin
\* len, and lambda name: -len(name))
KeyLess(key, x, y) ==
    CASE key = "_nat_key" -> ListLess(_nat_key(x), _nat_key(y))
      [] key = "_lex_key" -> StrLess(_lex_key(x), _lex_key(y))
      [] key = "len" -> Len(x) < Len(y)
      [] key = "neglen" -> Len(y) < Len(x)

\* list.sort(key=..., reverse=...): stable in both directions
RECURSIVE InsertSorted(_, _, _, _)
InsertSorted(x, sorted, key, reverse) ==
    IF sorted = <<>> THEN <<x>>
    ELSE IF KeyLess(key, IF reverse THEN Head(sorted).name ELSE x.name,
                         IF reverse THEN x.name ELSE Head(sorted).name)
         THEN <<x>> \o sorted
         ELSE <<Head(sorted)>> \o InsertSorted(x, Tail(sorted), key, reverse)

RECURSIVE SortBy(_, _, _)
SortBy(list, key, reverse) ==
    IF list = <<>> THEN <<>>
    ELSE InsertSorted(list[Len(list)],
                      SortBy(SubSeq(list, 1, Len(list) - 1), key, reverse),
                      key, reverse)

(***************************************************************************)
(* The filesystem                                                          *)
(*                                                                         *)
(* A directory is [err, entries]: err is the exception os.scandir (or the  *)
(* iteration over it) raises, "none" when it raises nothing, and entries   *)
(* is the sequence of DirEntry objects in enumeration order.  An entry is  *)
(* [name, kind, sub]: kind "dir" (a real directory, whose content is sub), *)
(* "file", "link" (a symbolic link to a directory; sub is the listing of   *)
(* the directory it points to, which the link's own directory is when the  *)
(* link closes a cycle) or "bad" (an entry whose is_dir() raises OSError). *)
(***************************************************************************)
Dir(err, entries) == [err |-> err, entries |-> entries]
NoDir == Dir("none", <<>>)
File(name) == [name |-> name, kind |-> "file", sub |-> NoDir]
LinkTo(name, d) == [name |-> name, kind |-> "link", sub |-> d]
Link(name) == LinkTo(name, NoDir)
Bad(name) == [name |-> name, kind |-> "bad", sub |-> NoDir]
SubDir(name, d) == [name |-> name, kind |-> "dir", sub |-> d]

\* the exception classes scandir raises here; all derive from OSError
OSErrors == {"OSError", "PermissionError", "FileNotFoundError", "NotADirectoryError"}

\* isinstance(e, cls)
IsInstance(e, cls) == e = cls \/ (cls = "OSError" /\ e \in OSErrors)

(***************************************************************************)
(* FileTreeDisplay._build_tree                                             *)
(***************************************************************************)
PERMISSION_DENIED == <<"[", "P", "e", "r", "m", "i", "s", "s", "i", "o", "n", " ",
                       "D", "e", "n", "i", "e", "d", "]">>
READ_ERR == <<"[", "E", "r", "r", "o", "r", " ", "r", "e", "a", "d", "i", "n", "g", " ",
              "d", "i", "r", "e", "c", "t", "o", "r", "y", "]">>

IsDirFollowingLinks(entry) ==
    CASE entry.kind \in {"dir", "link"} -> "true"
      [] entry.kind = "bad" -> "raise"
      [] OTHER -> "false"

\* entry.is_dir(follow_symlinks=False): "raise" stands for OSError
is_dir(entry) ==
    CASE entry.kind = "dir" -> "true"
      [] entry.kind = "bad" -> "raise"
      [] OTHER -> "false"

\* the classification loop: the dirs and files lists after the for loop
\* one pass of the loop body: entry goes to dirs, to files or to neither;
\* rest holds the lists built from the entries after it
ClassifyEntry(entry, rest, dir_filter, file_filter) ==
    IF is_dir(entry) = "raise" THEN rest
    ELSE IF CallPredicate(IF is_dir(entry) = "true" THEN dir_filter ELSE file_filter,
                          entry.name)
         THEN IF is_dir(entry) = "true"
              THEN [rest EXCEPT !.dirs = <<entry>> \o @]
              ELSE [rest EXCEPT !.files = <<entry>> \o @]
         ELSE rest

RECURSIVE ClassifyFrom(_, _, _, _)
ClassifyFrom(entries, i, dir_filter, file_filter) ==
    IF i > Len(entries) THEN [dirs |-> <<>>, files |-> <<>>]
    ELSE ClassifyEntry(entries[i],
                       ClassifyFrom(entries, i + 1, dir_filter, file_filter),
                       dir_filter, file_filter)

ClassifySwappedFilters(entries, dir_filter, file_filter) ==
    ClassifyFrom(entries, 1, file_filter, dir_filter)

Classify(entries, dir_filter, file_filter) ==
    ClassifyFrom(entries, 1, dir_filter, file_filter)

\* except (PermissionError, OSError, FileNotFoundError)
CaughtOnlyPermission(e) == IsInstance(e, "PermissionError")

Caught(e) ==
    \/ IsInstance(e, "PermissionError")
    \/ IsInstance(e, "OSError")
    \/ IsInstance(e, "FileNotFoundError")

\* the line the except clause yields
PlaceholderAlwaysReadErr(e, prefix) == READ_ERR

Placeholder(e, prefix) ==
    IF IsInstance(e, "PermissionError") THEN PERMISSION_DENIED ELSE READ_ERR

\* list.sort(key=sort_key) raises: the key function raises on one of the names
SortRaises(list, sort_key) ==
    /\ sort_key = "_nat_key"
    /\ \E i \in 1..Len(list) : NatKeyRaises(_NUM_SPLIT(list[i].name))

SortGroupReversesUnsorted(list, sort_key, reverse) ==
    IF sort_key # "None" THEN SortBy(list, sort_key, reverse)
    ELSE IF reverse THEN [i \in 1..Len(list) |-> list[Len(list) + 1 - i]]
    ELSE list

SortGroupIgnoresReverse(list, sort_key, reverse) ==
    IF sort_key # "None" THEN SortBy(list, sort_key, FALSE) ELSE list

\* if sort_key: dirs.sort(...); files.sort(...)
SortGroup(list, sort_key, reverse) ==
    IF sort_key # "None" THEN SortBy(list, sort_key, reverse) ELSE list

\* chain(f_iter, d_iter) if files_first else chain(d_iter, f_iter)
CombinedFilesAlwaysFirst(dirs, files, files_first) == files \o dirs

Combined(dirs, files, files_first) ==
    IF files_first THEN files \o dirs ELSE dirs \o files

\* connector = end if is_last else branch
ConnectorAlwaysBranch(is_last, style) == style.branch

Connector(is_last, style) == IF is_last THEN style.end ELSE style.branch

\* extension = space if is_last else vertical
ExtensionAlwaysVertical(is_last, style) == style.vertical

Extension(is_last, style) == IF is_last THEN style.space ELSE style.vertical

\* f'{prefix}{connector}{formatted_name}'
EntryLine(prefix, connector, name, isdir) ==
    prefix \o connector \o (IF isdir THEN name \o <<"/">> ELSE name)

\* What the generator gives: items, the lines yielded in order, each with the
\* place it comes from (path: the names from the root down to the entry, or to
\* the directory for a placeholder); exc, the exception that ends the
\* generator, "none" when it is exhausted normally.
Item(text, path, kind, isdir) ==
    [text |-> text, path |-> path, kind |-> kind, isdir |-> isdir]

\* yield the entry's line, then yield from recurse(...), then go on with the
\* next entry of combined
SpliceSiblingsFirst(own, below, rest) == own \o rest \o below

Splice(own, below, rest) == own \o below \o rest

NoItems == [items |-> <<>>, exc |-> "none"]

RECURSIVE _build_tree(_, _, _, _)
RECURSIVE EmitFrom(_, _, _, _, _)

\* own is the entry's line and below what the recursion into it gave: an
\* exception ends the generator, otherwise the loop goes on with the next entry
EmitRest(own, below, combined, idx, path, prefix, c) ==
    IF below.exc # "none"
    THEN [items |-> own \o below.items, exc |-> below.exc]
    ELSE [items |-> Splice(own, below.items,
                           EmitFrom(combined, idx + 1, path, prefix, c).items),
          exc |-> EmitFrom(combined, idx + 1, path, prefix, c).exc]

\* one pass of the for loop over combined
EmitEntry(entry, is_last, combined, idx, path, prefix, c) ==
    EmitRest(<<Item(EntryLine(prefix, Connector(is_last, c.style), entry.name,
                              entry.kind = "dir"),
                    path \o <<entry.name>>, "entry", entry.kind = "dir")>>,
             IF entry.kind = "dir"
             THEN _build_tree(entry.sub, path \o <<entry.name>>,
                              prefix \o Extension(is_last, c.style), c)
             ELSE NoItems,
             combined, idx, path, prefix, c)

\* the for loop over combined, from index idx on
EmitFrom(combined, idx, path, prefix, c) ==
    IF idx > Len(combined) THEN NoItems
    ELSE EmitEntry(combined[idx], idx = Len(combined), combined, idx, path, prefix, c)

\* the combined list of a directory whose entries were classified into cl
Listing(cl, c) ==
    Combined(SortGroup(cl.dirs, c.sort_key, c.reverse),
             SortGroup(cl.files, c.sort_key, c.reverse), c.files_first)

\* what follows the scandir block, for the classified entries cl: the two
\* sorts, where an exception of the key function ends the generator, then the loop
SortAndEmit(cl, path, prefix, c) ==
    IF SortRaises(cl.dirs, c.sort_key) \/ SortRaises(cl.files, c.sort_key)
    THEN [items |-> <<>>, exc |-> "ValueError"]
    ELSE EmitFrom(Listing(cl, c), 1, path, prefix, c)

\* c holds the arguments threaded through unchanged: style, sort_key,
\* files_first, dir_filter, file_filter, reverse
_build_tree(dir, path, prefix, c) ==
    IF dir.err # "none"
    THEN IF Caught(dir.err)
         THEN [items |-> <<Item(Placeholder(dir.err, prefix), path, "placeholder", FALSE)>>,
               exc |-> "none"]
         ELSE [items |-> <<>>, exc |-> dir.err]
    ELSE SortAndEmit(Classify(dir.entries, c.dir_filter, c.file_filter), path, prefix, c)

(***************************************************************************)
(* FileTreeDisplay: construction and the render call                       *)
(***************************************************************************)
\* connector_styler(branch, end), with self.indent
connector_styler(indent, branch, end) ==
    [space |-> Rep(" ", indent),
     vertical |-> <<VBAR>> \o Rep(" ", indent - 1),
     branch |-> branch,
     end |-> end]

\* the style registry __init__ builds
StyleDict(indent) ==
    [classic |-> connector_styler(indent, <<TEE, HBAR, HBAR, " ">>, <<ELL, HBAR, HBAR, " ">>),
     dash |-> connector_styler(indent, <<"|", "-", "-", " ">>, <<BQUOTE, "-", "-", " ">>),
     arrow |-> connector_styler(indent, <<TEE, HBAR, ">", " ">>, <<ELL, HBAR, ">", " ">>),
     plus |-> connector_styler(indent, <<"+", "-", "-", "-", " ">>,
                               <<BSLASH, "-", "-", "-", " ">>)]

\* __init__: a holds the constructor's arguments
Construct(a) ==
    [filepath |-> a.filepath,
     ignore_dirs |-> a.ignore_dirs,
     ignore_files |-> a.ignore_files,
     include_dirs |-> a.include_dirs,
     include_files |-> a.include_files,
     style |-> a.style,
     indent |-> a.indent,
     files_first |-> a.files_first,
     skip_sorting |-> a.skip_sorting,
     sort_key_name |-> a.sort_key_name,
     reverse |-> a.reverse,
     custom_sort |-> a.custom_sort,
     save2file |-> a.save2file,
     printout |-> a.printout,
     style_dict |-> StyleDict(a.indent),
     sort_keys |-> [natural |-> "_nat_key", lex |-> "_lex_key", custom |-> a.custom_sort],
     dir_filter |-> build_predicate(a.include_dirs, a.ignore_dirs),
     file_filter |-> build_predicate(a.include_files, a.ignore_files),
     built |-> 1]

\* the constructor's defaults
DefaultArgs ==
    [filepath |-> "None", include_dirs |-> {}, ignore_dirs |-> {},
     include_files |-> {}, ignore_files |-> {}, style |-> "classic", indent |-> 2,
     files_first |-> FALSE, skip_sorting |-> FALSE, sort_key_name |-> "natural",
     reverse |-> FALSE, custom_sort |-> "None", save2file |-> TRUE, printout |-> FALSE]

\* format_style: the style's connectors, or the error raised
format_style(obj) ==
    IF obj.style \notin DOMAIN obj.style_dict
    THEN [exc |-> "ValueError", value |-> <<>>]
    ELSE [exc |-> "none", value |-> obj.style_dict[obj.style]]

ResolveAnyKey(obj) ==
    IF obj.sort_key_name \in DOMAIN obj.sort_keys /\ obj.sort_keys[obj.sort_key_name] # "None"
    THEN [exc |-> "none", value |-> obj.sort_keys[obj.sort_key_name]]
    ELSE [exc |-> "none", value |-> "_nat_key"]

\* _resolve_sort_key: sort_keys.get(sort_key_name), or the error raised
_resolve_sort_key(obj) ==
    LET key == IF obj.sort_key_name \in DOMAIN obj.sort_keys
               THEN obj.sort_keys[obj.sort_key_name] ELSE "None"
    IN  IF key = "None" THEN [exc |-> "ValueError", value |-> "None"]
        ELSE [exc |-> "none", value |-> key]

\* the text get_tree_info builds from the lines the iterator yields
RECURSIVE WriteLines(_)
WriteLines(lines) ==
    IF lines = <<>> THEN <<>>
    ELSE Head(lines) \o <<NL>> \o WriteLines(Tail(lines))

GetTreeInfoKeepNewline(root_name, lines) ==
    root_name \o <<"/", NL>> \o WriteLines(lines)

get_tree_info(root_name, lines) ==
    LET out == root_name \o <<"/", NL>> \o WriteLines(lines)
    IN  IF EndsWith(out, <<NL>>) THEN SubSeq(out, 1, Len(out) - 1) ELSE out

Texts(items) == [i \in 1..Len(items) |-> items[i].text]

\* the outcome of a call; walked tells whether the iterator of _build_tree was
\* consumed, that is whether any directory enumeration was attempted
Raise(e) == [kind |-> "raise", exc |-> e, value |-> <<>>, items |-> <<>>, walked |-> FALSE]
RaiseAfterWalk(e) == [Raise(e) EXCEPT !.walked = TRUE]
Return(text, items) ==
    [kind |-> "return", exc |-> "none", value |-> text, items |-> items, walked |-> TRUE]
NotCalled == [kind |-> "none", exc |-> "none", value |-> <<>>, items |-> <<>>, walked |-> FALSE]

\* the walk file_tree_display starts, for instance obj on filesystem f
Walk(f, obj, style, sort_key) ==
    _build_tree(f.tree, <<>>, <<>>,
                [style |-> style, sort_key |-> sort_key,
                 files_first |-> obj.files_first,
                 dir_filter |-> obj.dir_filter, file_filter |-> obj.file_filter,
                 reverse |-> obj.reverse])

\* tree_info = self.get_tree_info(iterator), for the walk w
TreeInfo(root_name, w) ==
    IF w.exc # "none" THEN RaiseAfterWalk(w.exc)
    ELSE Return(get_tree_info(root_name, Texts(w.items)), w.items)

\* sort_key = None if self.skip_sorting else self._resolve_sort_key()
SortKey(obj) ==
    IF obj.skip_sorting THEN [exc |-> "none", value |-> "None"]
    ELSE _resolve_sort_key(obj)

RenderStyleFirst(f, obj) ==
    IF format_style(obj).exc # "none" THEN Raise(format_style(obj).exc)
    ELSE IF ~f.is_dir THEN Raise("NotADirectoryError")
    ELSE IF SortKey(obj).exc # "none" THEN Raise(SortKey(obj).exc)
    ELSE TreeInfo(f.root_name, Walk(f, obj, format_style(obj).value, SortKey(obj).value))

\* the outcome of file_tree_display up to tree_info (before the sinks)
Render(f, obj) ==
    IF ~f.is_dir THEN Raise("NotADirectoryError")
    ELSE IF format_style(obj).exc # "none" THEN Raise(format_style(obj).exc)
    ELSE IF SortKey(obj).exc # "none" THEN Raise(SortKey(obj).exc)
    ELSE TreeInfo(f.root_name, Walk(f, obj, format_style(obj).value, SortKey(obj).value))

MaxStdout == 1

\* Path(filepath).parent, for the output paths used
ParentDir(filepath) == IF filepath = "d/out.txt" THEN "d" ELSE "."

\* what f.write(content) stores in text mode: '\n' becomes os.linesep
RECURSIVE TranslateOut(_, _)
TranslateOut(content, linesep) ==
    IF content = <<>> THEN <<>>
    ELSE (IF Head(content) = NL /\ linesep = "CRLF" THEN <<CR, NL>> ELSE <<Head(content)>>)
         \o TranslateOut(Tail(content), linesep)

\* what open(filepath, encoding='utf-8').read() gives for the stored characters:
\* universal newlines, '\r\n' and '\r' read as '\n'
RECURSIVE read_text(_)
read_text(stored) ==
    IF stored = <<>> THEN <<>>
    ELSE IF Head(stored) = CR
         THEN <<NL>> \o read_text(IF Len(stored) > 1 /\ stored[2] = NL
                                  THEN Drop(stored, 2) ELSE Tail(stored))
         ELSE <<Head(stored)>> \o read_text(Tail(stored))

\* open(mode) followed by f.write(content): 'w' truncates, 'a' keeps what is there
OpenAndWrite(files, content, filepath, mode, linesep) ==
    [p \in DOMAIN files \cup {filepath} |->
        IF p # filepath THEN files[p]
        ELSE (IF mode = "a" /\ p \in DOMAIN files THEN files[p] ELSE <<>>)
             \o TranslateOut(content, linesep)]

Str2FileAppends(d, content, filepath) ==
    [d EXCEPT !.dirs = @ \cup {ParentDir(filepath)},
              !.files = IF d.writable
                        THEN OpenAndWrite(@, content, filepath, "a", d.linesep) ELSE @]

\* str2file(content, filepath) in the default mode 'w' on disk d: the disk it
\* leaves; the parent is created when missing, and the write is lost when
\* opening raises (d.writable = FALSE)
str2file(d, content, filepath) ==
    [d EXCEPT !.dirs = @ \cup {ParentDir(filepath)},
              !.files = IF d.writable
                        THEN OpenAndWrite(@, content, filepath, "w", d.linesep) ELSE @]

\* the exception str2file raises on disk d
str2file_exc(d) == IF d.writable THEN "none" ELSE "PermissionError"

SinksExclusive(r) ==
    IF r.kind = "return" /\ self.save2file /\ self.filepath # "None"
    THEN /\ ret' = r
         /\ disk' = str2file(disk, r.value, self.filepath)
         /\ stdout' = stdout
    ELSE /\ ret' = r
         /\ disk' = disk
         /\ stdout' = IF r.kind = "return" /\ self.printout
                      THEN Append(stdout, r.value) ELSE stdout

\* the sinks, for the outcome r of the render: str2file when save2file and
\* filepath, then print when printout
Sinks(r) ==
    IF r.kind = "return" /\ self.save2file /\ self.filepath # "None"
    THEN /\ disk' = str2file(disk, r.value, self.filepath)
         /\ IF str2file_exc(disk) # "none"
            THEN /\ ret' = RaiseAfterWalk(str2file_exc(disk))
                 /\ stdout' = stdout
            ELSE /\ ret' = r
                 /\ stdout' = IF self.printout THEN Append(stdout, r.value) ELSE stdout
    ELSE /\ ret' = r
         /\ disk' = disk
         /\ stdout' = IF r.kind = "return" /\ self.printout
                      THEN Append(stdout, r.value) ELSE stdout

file_tree_display ==
    /\ self.printout => Len(stdout) < MaxStdout
    /\ Sinks(Render(fs, self))
    /\ UNCHANGED <<fs, self, pcall, others>>

(***************************************************************************)
(* Calling a filter predicate directly                                     *)
(***************************************************************************)
NoCall == [called |-> FALSE, name |-> <<>>, res |-> FALSE]

\* names a caller passes to the directory filter
ProbeNames ==
    {<<>>, Str1("a"), Str1("b"), Str2("a", "b"), Str2("b", "a"),
     Str2("a", "*"), Str3("[", "a", "]"), Str1("["), Str1("?")}

\* self.dir_filter(name)
call_dir_filter ==
    /\ \E name \in ProbeNames :
          pcall' = [called |-> TRUE, name |-> name,
                    res |-> CallPredicate(self.dir_filter, name)]
    /\ UNCHANGED <<fs, self, ret, disk, stdout, others>>

(***************************************************************************)
(* Using an instance directly: attributes, the style registry, format_style *)
(***************************************************************************)
\* style names a caller may assign
AssignedStyles == {"classic", "dash", "arrow", "plus", " ", "arrowstar", "bogus"}

\* the styles a caller may put into style_dict: name, branch, end
AddedStyles ==
    {[name |-> "plus", branch |-> <<"+", "-", "-", " ">>, end |-> <<"+", "=", "=", " ">>],
     [name |-> "arrowstar", branch |-> <<"U2192", "*", " ">>, end |-> <<"U21B3", "*", " ">>]}

\* a returned value that is no render
Returned(v) == [kind |-> "return", exc |-> "none", value |-> v, items |-> <<>>, walked |-> FALSE]

\* no format_style call was made yet
NoStyleCall == [called |-> FALSE, name |-> "", res |-> NotCalled]

\* self.style = name
set_style ==
    /\ \E name \in AssignedStyles : self' = [self EXCEPT !.style = name]
    /\ UNCHANGED <<fs, ret, disk, stdout, pcall, others>>

\* self.style_dict[name] = self.connector_styler(branch, end)
add_style ==
    /\ \E a \in AddedStyles :
          self' = [self EXCEPT !.style_dict =
                      [k \in DOMAIN @ \cup {a.name} |->
                          IF k = a.name THEN connector_styler(self.indent, a.branch, a.end)
                          ELSE @[k]]]
    /\ UNCHANGED <<fs, ret, disk, stdout, pcall, others>>

\* self.format_style(), called directly; pcall records the style asked for
call_format_style ==
    /\ pcall' = [called |-> TRUE, name |-> self.style,
                 res |-> IF format_style(self).exc # "none"
                         THEN Raise(format_style(self).exc)
                         ELSE Returned(format_style(self).value)]
    /\ UNCHANGED <<fs, self, ret, disk, stdout, others>>

(***************************************************************************)
(* Changing the filter sets of an instance                                 *)
(***************************************************************************)
MaxBuilds == 3

\* the filter sets a caller may assign
AttrValues == {{}, {Str1("a")}}

UpdatePredicatesKeepsOld(obj) == [obj EXCEPT !.built = @ + 1]

\* update_predicates: both predicates are built anew from the current sets;
\* built counts the builds, which tells the predicate objects apart
update_predicates(obj) ==
    [obj EXCEPT !.dir_filter = build_predicate(obj.include_dirs, obj.ignore_dirs),
                !.file_filter = build_predicate(obj.include_files, obj.ignore_files),
                !.built = @ + 1]

\* self.ignore_dirs = v, and the same for the three other sets
set_filter_set ==
    /\ \E v \in AttrValues :
          \/ self' = [self EXCEPT !.ignore_dirs = v]
          \/ self' = [self EXCEPT !.ignore_files = v]
          \/ self' = [self EXCEPT !.include_dirs = v]
          \/ self' = [self EXCEPT !.include_files = v]
    /\ UNCHANGED <<fs, ret, disk, stdout, pcall, others>>

\* self.update_predicates()
call_update_predicates ==
    /\ self.built < MaxBuilds
    /\ self' = update_predicates(self)
    /\ UNCHANGED <<fs, ret, disk, stdout, pcall, others>>

\* self.init(...): __init__ runs again on the same instance
init ==
    /\ self.built < MaxBuilds
    /\ \E v \in AttrValues :
          self' = [Construct([DefaultArgs EXCEPT !.ignore_dirs = v, !.save2file = FALSE])
                      EXCEPT !.built = self.built + 1]
    /\ UNCHANGED <<fs, ret, disk, stdout, pcall, others>>

(***************************************************************************)
(* Changing the sort key of an instance                                    *)
(***************************************************************************)
\* the values a caller may assign to custom_sort
CustomSorts == {"None", "len", "neglen"}

\* self.custom_sort = f
set_custom_sort ==
    /\ \E f \in CustomSorts : self' = [self EXCEPT !.custom_sort = f]
    /\ UNCHANGED <<fs, ret, disk, stdout, pcall, others>>

\* self.sort_key_name = name
set_sort_key_name ==
    /\ \E name \in {"natural", "custom"} : self' = [self EXCEPT !.sort_key_name = name]
    /\ UNCHANGED <<fs, ret, disk, stdout, pcall, others>>

(***************************************************************************)
(* Calling str2file directly                                               *)
(***************************************************************************)
\* no str2file call was made yet
NoWriteCall ==
    [called |-> FALSE, name |-> "", content |-> <<>>, res |-> "none", replaced |-> FALSE]

\* texts a caller may write
Contents == {<<>>, Str1("a"), Str2("a", "b"), Str3("a", NL, "b"), Str3("a", CR, "b")}

\* str2file(content, filepath); pcall records the arguments, the exception
\* raised and whether the path held a file before
call_str2file ==
    /\ \E content \in Contents, filepath \in {"out.txt", "d/out.txt"} :
          /\ pcall' = [called |-> TRUE, name |-> filepath, content |-> content,
                       res |-> str2file_exc(disk),
                       replaced |-> filepath \in DOMAIN disk.files]
          /\ disk' = str2file(disk, content, filepath)
    /\ UNCHANGED <<fs, self, ret, stdout, others>>

(***************************************************************************)
(* The command line: parse and merge_config (__main__.py)                  *)
(*                                                                         *)
(* A Namespace and a config dict are functions from option names to        *)
(* values; every value is written as the text of its Python literal, so    *)
(* "None" is None, "2" the integer 2 and "False" the boolean False.        *)
(***************************************************************************)
MaxGiven == 2

\* the dest names of the options parse defines
Dests ==
    {"cfg", "root_dir", "filepath", "ignore_dirs", "ignore_files", "include_dirs",
     "include_files", "style", "indent", "files_first", "skip_sorting", "sort_key",
     "reverse", "no_save", "printout"}

\* the options with action='store_true'
Flags == {"files_first", "skip_sorting", "reverse", "no_save", "printout"}

\* what argparse stores for an option that argv does not hold
ArgDefault(dest) ==
    CASE dest = "style" -> "classic"
      [] dest = "indent" -> "2"
      [] dest = "sort_key" -> "natural"
      [] dest \in Flags -> "False"
      [] OTHER -> "None"

\* the value argv gives to an option it holds
ArgValue(dest) ==
    CASE dest = "style" -> "dash"
      [] dest = "indent" -> "4"
      [] dest = "sort_key" -> "custom"
      [] dest \in Flags -> "True"
      [] OTHER -> "cli"

\* the value the config file gives to an option it holds
CfgValue(dest) ==
    CASE dest = "style" -> "arrow"
      [] dest = "indent" -> "3"
      [] dest = "sort_key" -> "lex"
      [] dest \in Flags -> "True"
      [] OTHER -> "file"

\* parse(argv): the Namespace, for the set of options argv holds
parse(argv) == [d \in Dests |-> IF d \in argv THEN ArgValue(d) ELSE ArgDefault(d)]

\* the entries of vars(cli_args) that merge_config copies
Copied(cli_args) == {k \in DOMAIN cli_args : cli_args[k] # "None" /\ k # "config"}

\* merge_config(cli_args, cfg_dict)
merge_config(cli_args, cfg_dict) ==
    [k \in DOMAIN cfg_dict \cup Copied(cli_args) |->
        IF k \in Copied(cli_args) THEN cli_args[k] ELSE cfg_dict[k]]

\* the sets of options a command line or a config file may hold
OptionSets == {s \in SUBSET Dests : Cardinality(s) <= MaxGiven}

NoMerge ==
    [called |-> FALSE, argv |-> {}, cfg_dict |-> [k \in {} |-> ""],
     merged |-> [k \in {} |-> ""]]

\* the command lines and config files of one run
MergeInputs ==
    {[NoMerge EXCEPT !.argv = argv, !.cfg_dict = [k \in keys |-> CfgValue(k)]] :
        argv \in OptionSets, keys \in OptionSets}

\* merge_config(parse(argv), cfg_dict), as main calls it
call_merge_config ==
    /\ ~cli.called
    /\ cli' = [cli EXCEPT !.called = TRUE,
                          !.merged = merge_config(parse(cli.argv), cli.cfg_dict)]
    /\ UNCHANGED <<ftd, importer, ports, timer>>

(***************************************************************************)
(* Importer.import_mod_from_lib (dynamic_importer.py)                      *)
(***************************************************************************)
Libraries == {"libA", "libB", "libC"}
ModuleNames == {"m1", "m2", "m3", "m4"}

\* the module object importlib returns for library.module_name
Module(library, module_name) == [library |-> library, module_name |-> module_name]
NoModule == Module("", "")

\* the modules that can be imported, and one whose own code raises when it
\* is imported
Installed ==
    {Module("libA", "m1"), Module("libB", "m1"), Module("libC", "m1"),
     Module("libA", "m2"), Module("libB", "m2"), Module("libA", "m3")}
Broken == {Module("libC", "m3")}

\* importlib.import_module(f'{library}.{module_name}'): "module" when it
\* returns the module, else the exception it raises
import_module(library, module_name) ==
    IF Module(library, module_name) \in Installed THEN "module"
    ELSE IF Module(library, module_name) \in Broken THEN "RuntimeError"
    ELSE "ModuleNotFoundError"

ImportIgnoresCache(imported_modules, library, module_name) ==
    IF import_module(library, module_name) = "module"
    THEN [imported_modules |->
             [k \in DOMAIN imported_modules \cup {module_name} |->
                 IF k = module_name THEN Module(library, module_name)
                 ELSE imported_modules[k]],
          kind |-> "return", exc |-> "none", value |-> Module(library, module_name),
          imports |-> 1]
    ELSE [imported_modules |-> imported_modules, kind |-> "raise", exc |-> "ImportError",
          value |-> NoModule, imports |-> 1]

\* import_mod_from_lib on the cache imported_modules: the cache it leaves, what
\* it returns or raises, and the number of import_module calls it made
import_mod_from_lib(imported_modules, library, module_name) ==
    IF module_name \in DOMAIN imported_modules
    THEN [imported_modules |-> imported_modules, kind |-> "return", exc |-> "none",
          value |-> imported_modules[module_name], imports |-> 0]
    ELSE IF import_module(library, module_name) = "module"
    THEN [imported_modules |->
             [k \in DOMAIN imported_modules \cup {module_name} |->
                 IF k = module_name THEN Module(library, module_name)
                 ELSE imported_modules[k]],
          kind |-> "return", exc |-> "none", value |-> Module(library, module_name),
          imports |-> 1]
    ELSE [imported_modules |-> imported_modules, kind |-> "raise",
          exc |-> IF import_module(library, module_name) = "ModuleNotFoundError"
                  THEN "ImportError" ELSE import_module(library, module_name),
          value |-> NoModule, imports |-> 1]

\* Importer(): the cache is empty and no call was made
NewImporter ==
    [imported_modules |-> [k \in {} |-> NoModule], library |-> "", module_name |-> "",
     kind |-> "none", exc |-> "none", value |-> NoModule, imports |-> 0]

\* the instance after the call r, made with these arguments
AfterImport(r, library, module_name) ==
    [imported_modules |-> r.imported_modules, library |-> library,
     module_name |-> module_name, kind |-> r.kind, exc |-> r.exc, value |-> r.value,
     imports |-> r.imports]

\* importer.import_mod_from_lib(library, module_name)
call_import_mod_from_lib ==
    /\ \E library \in Libraries, module_name \in ModuleNames :
          importer' = AfterImport(import_mod_from_lib(importer.imported_modules,
                                                      library, module_name),
                                  library, module_name)
    /\ UNCHANGED <<ftd, cli, ports, timer>>

(***************************************************************************)
(* PortsRelease.release_all (release_ports.py)                             *)
(*                                                                         *)
(* A port is [isint, n]: isint tells whether isinstance(port, int) holds.  *)
(* What the system answers for the port at one position of the list is     *)
(* [lookup, pid, killed]: lookup is "return" when get_pid_by_port returns  *)
(* pid (NoPid for None) and "raise" when a replaced get_pid_by_port raises *)
(* (the method of the class catches its own exceptions); killed is what    *)
(* kill_process returns.  The log holds, in order, the calls made and the  *)
(* messages logged.                                                        *)
(***************************************************************************)
MaxPorts == 3

PROXY_SERVER == 6277
INSPECTOR_CLIENT == 6274

Port(n) == [isint |-> TRUE, n |-> n]
NotAPort == [isint |-> FALSE, n |-> 0]
NoPid == -1

\* PortsRelease(): default_ports
default_ports == <<Port(PROXY_SERVER), Port(INSPECTOR_CLIENT)>>

Event(kind, pos, port, pid) == [kind |-> kind, pos |-> pos, port |-> port, pid |-> pid]

HandlePortKillsAlways(port, pos, o) ==
    IF ~port.isint
    THEN [exc |-> "none", events |-> <<Event("error:invalid_port", pos, port, NoPid)>>]
    ELSE IF o.lookup = "raise"
    THEN [exc |-> "Exception", events |-> <<Event("get_pid_by_port", pos, port, NoPid)>>]
    ELSE [exc |-> "none",
          events |-> <<Event("get_pid_by_port", pos, port, NoPid),
                       Event("info:process_found", pos, port, o.pid),
                       Event("kill_process", pos, port, o.pid),
                       Event(IF o.killed THEN "info:process_terminated"
                             ELSE "error:terminate_failed", pos, port, o.pid)>>]

\* one pass of the loop body, for the port at position pos and the answers o:
\* the events, and the exception that leaves the loop
HandlePort(port, pos, o) ==
    IF ~port.isint
    THEN [exc |-> "none", events |-> <<Event("error:invalid_port", pos, port, NoPid)>>]
    ELSE IF o.lookup = "raise"
    THEN [exc |-> "Exception", events |-> <<Event("get_pid_by_port", pos, port, NoPid)>>]
    ELSE IF o.pid = NoPid
    THEN [exc |-> "none",
          events |-> <<Event("get_pid_by_port", pos, port, NoPid),
                       Event("info:no_process", pos, port, NoPid)>>]
    ELSE [exc |-> "none",
          events |-> <<Event("get_pid_by_port", pos, port, NoPid),
                       Event("info:process_found", pos, port, o.pid),
                       Event("kill_process", pos, port, o.pid),
                       Event(IF o.killed THEN "info:process_terminated"
                             ELSE "error:terminate_failed", pos, port, o.pid)>>]

\* the events of one pass, followed by what the later passes r did
Then(events, r) == [r EXCEPT !.events = events \o @]

\* the for loop from position i on
RECURSIVE ReleaseFrom(_, _, _)
ReleaseFrom(list, env, i) ==
    IF i > Len(list) THEN [exc |-> "none", events |-> <<>>]
    ELSE IF HandlePort(list[i], i, env[i]).exc # "none" THEN HandlePort(list[i], i, env[i])
    ELSE Then(HandlePort(list[i], i, env[i]).events, ReleaseFrom(list, env, i + 1))

\* except Exception as e: lgr.error(...), for the outcome r of the try block
ExceptLogged(r) ==
    IF r.exc = "none" THEN r
    ELSE [exc |-> "none",
          events |-> Append(r.events,
                            [r.events[Len(r.events)] EXCEPT !.kind = "error:unexpected_error"])]

\* ports_to_release
PortsToRelease(arg) == IF arg.is_none THEN default_ports ELSE arg.list

\* release_all(ports): the exception it raises and the log it leaves
release_all(arg, env) == ExceptLogged(ReleaseFrom(PortsToRelease(arg), env, 1))

\* the ports argument: None, or a list
NoPorts == [is_none |-> TRUE, list |-> <<>>]
PortPool == {NotAPort, Port(1234), Port(5678)}
PortArgs ==
    {NoPorts} \cup {[is_none |-> FALSE, list |-> l] :
                       l \in UNION {[1..n -> PortPool] : n \in 0..MaxPorts}}

\* the answers of the system for one port
Answers ==
    {[lookup |-> "raise", pid |-> NoPid, killed |-> FALSE],
     [lookup |-> "return", pid |-> NoPid, killed |-> FALSE]}
    \cup {[lookup |-> "return", pid |-> p, killed |-> k] : p \in {1111, 2222}, k \in BOOLEAN}

NoRelease ==
    [called |-> FALSE, arg |-> NoPorts, list |-> <<>>, env |-> <<>>, log |-> <<>>,
     exc |-> "none"]

\* the arguments of one call, with the answers the system will give
ReleaseInputs ==
    UNION {{[NoRelease EXCEPT !.arg = arg, !.list = PortsToRelease(arg), !.env = env] :
               env \in [1..Len(PortsToRelease(arg)) -> Answers]} : arg \in PortArgs}

\* PortsRelease().release_all(ports)
call_release_all ==
    /\ ~ports.called
    /\ ports' = [ports EXCEPT !.called = TRUE,
                             !.log = release_all(ports.arg, ports.env).events,
                             !.exc = release_all(ports.arg, ports.env).exc]
    /\ UNCHANGED <<ftd, cli, importer, timer>>

(***************************************************************************)
(* Timer.timeit: the wrapper of a synchronous function (timers.py)         *)
(*                                                                         *)
(* durations[i] is the duration_ns measured for run i.  The decorated      *)
(* function returns the number of the run, so the result of run i is i;    *)
(* 0 stands for None.  A timeout is [is_none, s], s in seconds.            *)
(***************************************************************************)
MaxIterations == 3

NS_IN_SEC == 1000000000

NoTimeout == [is_none |-> TRUE, s |-> 0]
TimeoutOf(s) == [is_none |-> FALSE, s |-> s]

\* _check_timeout: whether it raises TimeoutError; x / NS_IN_SEC > timeout is
\* written x > timeout * NS_IN_SEC
_check_timeout(duration_ns, total_elapsed_ns, timeout, per_iteration) ==
    IF timeout.is_none THEN FALSE
    ELSE IF per_iteration THEN duration_ns > timeout.s * NS_IN_SEC
    ELSE total_elapsed_ns > timeout.s * NS_IN_SEC

\* the for loop from iteration i on: the exception that ends it, and the
\* number of runs made
RECURSIVE RunFrom(_, _, _, _, _, _)
RunFrom(i, total_elapsed_ns, iterations, timeout, per_iteration, durations) ==
    IF i > iterations THEN [exc |-> "none", runs |-> i - 1]
    ELSE IF _check_timeout(durations[i], total_elapsed_ns + durations[i], timeout,
                           per_iteration)
         THEN [exc |-> "TimeoutError", runs |-> i]
         ELSE RunFrom(i + 1, total_elapsed_ns + durations[i], iterations, timeout,
                      per_iteration, durations)

\* what the wrapper does after the loop l: avg_elapsed_ns divides by
\* iterations, then the message is logged and the last result returned
AfterLoop(l, iterations) ==
    IF l.exc # "none"
    THEN [kind |-> "raise", exc |-> l.exc, value |-> 0, runs |-> l.runs, messages |-> 0]
    ELSE IF iterations = 0
    THEN [kind |-> "raise", exc |-> "ZeroDivisionError", value |-> 0, runs |-> l.runs,
          messages |-> 0]
    ELSE [kind |-> "return", exc |-> "none", value |-> l.runs, runs |-> l.runs,
          messages |-> 1]

\* sync_wrapper(): one call of the decorated function
sync_wrapper(iterations, timeout, per_iteration, durations) ==
    AfterLoop(RunFrom(1, 0, iterations, timeout, per_iteration, durations), iterations)

\* the durations a run may take, in ns
Durations == {0, 400000000, 500000000}
Timeouts == {NoTimeout, TimeoutOf(0), TimeoutOf(1)}

NoTimedCall ==
    [called |-> FALSE, iterations |-> 0, timeout |-> NoTimeout, per_iteration |-> FALSE,
     durations |-> <<>>, res |-> [kind |-> "none", exc |-> "none", value |-> 0, runs |-> 0,
                                  messages |-> 0]]

\* the decorations of one function, with the durations its runs will take
TimedInputs ==
    UNION {{[NoTimedCall EXCEPT !.iterations = k, !.timeout = t, !.per_iteration = p,
                                !.durations = d] :
               t \in Timeouts, p \in BOOLEAN, d \in [1..k -> Durations]} :
           k \in 0..MaxIterations}

\* a call of a function decorated with timeit(iterations, timeout, per_iteration)
call_sync_wrapper ==
    /\ ~timer.called
    /\ timer' = [timer EXCEPT !.called = TRUE,
                             !.res = sync_wrapper(timer.iterations, timer.timeout,
                                                  timer.per_iteration, timer.durations)]
    /\ UNCHANGED <<ftd, cli, importer, ports>>

\* the other modules before any of their calls
OthersIdle ==
    /\ cli = NoMerge
    /\ importer = NewImporter
    /\ ports = NoRelease
    /\ timer = NoTimedCall

(***************************************************************************)
(* The filesystems and configurations explored                             *)
(***************************************************************************)
MaxEntries == 3
MaxIndent == 2

N_a == Str1("a")
N_b == Str1("b")
N_f == Str1("f")
N_fnl == Str2("f", NL)
N_R == Str1("R")

\* the sequences of at most n entries of pool with distinct names
Listings(pool, n) ==
    UNION {{l \in [1..k -> pool] :
               \A i, j \in 1..k : i # j => l[i].name # l[j].name} : k \in 0..n}

\* directories two levels below the root
LeafDirs ==
    {Dir("none", <<>>), Dir("none", <<File(N_f)>>), Dir("PermissionError", <<File(N_f)>>)}

\* directories one level below the root
MidDirs ==
    {Dir("none", l) : l \in Listings({File(N_f)} \cup {SubDir(N_a, d) : d \in LeafDirs}, 2)}
    \cup {Dir("PermissionError", <<>>), Dir("OSError", <<File(N_f)>>)}

\* a directory holding a symbolic link to itself: what is listed through the
\* link is the directory's own listing, and so on without end
SelfLinked ==
    Dir("none", <<Bad(N_b), LinkTo(N_a, Dir("none", <<Bad(N_b), Link(N_a)>>))>>)

SmallDirs == {Dir("none", <<>>), Dir("OSError", <<>>), SelfLinked}

Absent == [name |-> <<>>, kind |-> "absent", sub |-> NoDir]
IsPresent(e) == e.kind # "absent"
Reverse(l) == [i \in 1..Len(l) |-> l[Len(l) + 1 - i]]

\* what the root may hold, in one enumeration order; the other one explored
\* is its reverse
RootSlots ==
    <<{File(N_f)}, {SubDir(N_a, d) : d \in MidDirs}, {File(N_fnl)},
      {SubDir(N_b, d) : d \in SmallDirs}>>

RootListings ==
    LET picks == {c \in {<<c1, c2, c3, c4>> :
                            c1 \in RootSlots[1] \cup {Absent},
                            c2 \in RootSlots[2] \cup {Absent},
                            c3 \in RootSlots[3] \cup {Absent},
                            c4 \in RootSlots[4] \cup {Absent}} :
                     Cardinality({i \in 1..4 : IsPresent(c[i])}) <= MaxEntries}
          fwd == {SelectSeq(c, IsPresent) : c \in picks}
    IN  fwd \cup {Reverse(l) : l \in fwd}

RootDirs ==
    {Dir("none", l) : l \in RootListings}
    \cup {Dir("PermissionError", <<>>), Dir("FileNotFoundError", <<File(N_f)>>)}

FileSystems ==
    {[root_name |-> N_R, is_dir |-> TRUE, tree |-> t] : t \in RootDirs}
    \cup {[root_name |-> N_R, is_dir |-> FALSE, tree |-> NoDir]}

NoFilters ==
    [include_dirs |-> {}, ignore_dirs |-> {}, include_files |-> {}, ignore_files |-> {}]

FilterChoices ==
    {NoFilters,
     [NoFilters EXCEPT !.ignore_dirs = {N_b}],
     [NoFilters EXCEPT !.ignore_files = {N_f}, !.include_dirs = {Str2("a", "*"), N_b}],
     [NoFilters EXCEPT !.include_dirs = {N_a, N_b}, !.ignore_dirs = {N_a},
                       !.include_files = {Str1("?")}]}

SortChoices ==
    {[skip_sorting |-> FALSE, sort_key_name |-> "natural", reverse |-> FALSE],
     [skip_sorting |-> TRUE, sort_key_name |-> "natural", reverse |-> FALSE],
     [skip_sorting |-> TRUE, sort_key_name |-> "natural", reverse |-> TRUE],
     [skip_sorting |-> FALSE, sort_key_name |-> "lex", reverse |-> TRUE]}

TreeArgs ==
    {[DefaultArgs EXCEPT
         !.include_dirs = flt.include_dirs, !.ignore_dirs = flt.ignore_dirs,
         !.include_files = flt.include_files, !.ignore_files = flt.ignore_files,
         !.skip_sorting = srt.skip_sorting, !.sort_key_name = srt.sort_key_name,
         !.reverse = srt.reverse, !.files_first = ff, !.indent = ind] :
        flt \in FilterChoices, srt \in SortChoices, ff \in BOOLEAN, ind \in {0, MaxIndent}}

EmptyDisk ==
    [writable |-> TRUE, linesep |-> "LF", dirs |-> {"."}, files |-> [p \in {} |-> <<>>]]

\* the platforms and permissions a render may meet
Disks == {[EmptyDisk EXCEPT !.writable = w, !.linesep = l] : w \in BOOLEAN, l \in {"LF", "CRLF"}}

N_fcr == Str2("f", CR)

\* style names a caller may pass
StyleNames == {"classic", "dash", " ", "bogus"}

\* sort_key_name, custom_sort and skip_sorting as a caller may pass them
KeyChoices ==
    {[sort_key_name |-> "natural", custom_sort |-> "None", skip_sorting |-> FALSE],
     [sort_key_name |-> "custom", custom_sort |-> "len", skip_sorting |-> FALSE],
     [sort_key_name |-> "custom", custom_sort |-> "None", skip_sorting |-> FALSE],
     [sort_key_name |-> "", custom_sort |-> "None", skip_sorting |-> FALSE],
     [sort_key_name |-> "none", custom_sort |-> "None", skip_sorting |-> FALSE],
     [sort_key_name |-> "bogus", custom_sort |-> "None", skip_sorting |-> FALSE],
     [sort_key_name |-> "bogus", custom_sort |-> "None", skip_sorting |-> TRUE],
     [sort_key_name |-> "custom", custom_sort |-> "None", skip_sorting |-> TRUE]}

OutPaths == {"None", "out.txt", "d/out.txt"}

\* configurations that vary the validation inputs and the sinks
ConfigArgs ==
    {[DefaultArgs EXCEPT
         !.style = st, !.sort_key_name = k.sort_key_name, !.custom_sort = k.custom_sort,
         !.skip_sorting = k.skip_sorting, !.save2file = s2f, !.printout = po,
         !.filepath = fp] :
        st \in StyleNames, k \in KeyChoices, s2f \in BOOLEAN, po \in BOOLEAN, fp \in OutPaths}

\* the filesystems they are rendered on
ConfigFileSystems ==
    {[root_name |-> N_R, is_dir |-> FALSE, tree |-> NoDir],
     [root_name |-> N_R, is_dir |-> TRUE, tree |-> Dir("FileNotFoundError", <<>>)],
     [root_name |-> N_R, is_dir |-> TRUE, tree |-> Dir("none", <<>>)],
     [root_name |-> N_R, is_dir |-> TRUE, tree |-> Dir("none", <<File(N_fcr)>>)],
     [root_name |-> N_R, is_dir |-> TRUE,
      tree |-> Dir("none", <<File(N_b), SubDir(N_a, Dir("none", <<File(N_f)>>)),
                             File(Str2("b", "b"))>>)]}

Init ==
    /\ \/ /\ fs \in FileSystems
          /\ \E a \in TreeArgs : self = Construct(a)
          /\ disk = EmptyDisk
       \/ /\ fs \in ConfigFileSystems
          /\ \E a \in ConfigArgs : self = Construct(a)
          /\ disk \in Disks
    /\ ret = NotCalled
    /\ stdout = <<>>
    /\ pcall = NoCall
    /\ OthersIdle

Next == file_tree_display

Spec == Init /\ [][Next]_vars

ObjInit ==
    /\ fs = [root_name |-> N_R, is_dir |-> TRUE, tree |-> NoDir]
    /\ \E ind \in {0, MaxIndent} : self = Construct([DefaultArgs EXCEPT !.indent = ind])
    /\ ret = NotCalled
    /\ disk = EmptyDisk
    /\ stdout = <<>>
    /\ pcall = NoStyleCall
    /\ OthersIdle

ObjNext == set_style \/ add_style \/ call_format_style

ObjSpec == ObjInit /\ [][ObjNext]_vars

MaxNames == 3

N_f1 == Str2("f", "1")
N_f2 == Str2("f", "2")
N_f10 == Str3("f", "1", "0")
N_f01 == Str3("f", "0", "1")
N_A == Str1("A")
N_B == Str1("B")
N_1sup2 == Str2("1", SUP2)

\* entries whose names exercise the sort keys
SortPool ==
    {File(n) : n \in {N_f1, N_f2, N_f10, N_f01, N_A, N_a, N_B, N_1sup2}}
    \cup {SubDir(n, Dir("none", <<>>)) : n \in {N_f1, N_f2, N_f10, N_A, N_a}}

\* sort key, direction and group order as a caller may pass them
SortArgs ==
    {[DefaultArgs EXCEPT !.sort_key_name = k.sort_key_name, !.custom_sort = k.custom_sort,
                         !.reverse = rev, !.files_first = ff, !.save2file = FALSE] :
        k \in {x \in KeyChoices : x.sort_key_name \in {"natural", "custom"} /\ ~x.skip_sorting
                                   /\ (x.sort_key_name = "custom" => x.custom_sort # "None")}
              \cup {[sort_key_name |-> "lex", custom_sort |-> "None", skip_sorting |-> FALSE]},
        rev \in BOOLEAN, ff \in BOOLEAN}

SortInit ==
    /\ \E l \in Listings(SortPool, MaxNames) :
          fs = [root_name |-> N_R, is_dir |-> TRUE, tree |-> Dir("none", l)]
    /\ \E a \in SortArgs : self = Construct(a)
    /\ ret = NotCalled
    /\ disk = EmptyDisk
    /\ stdout = <<>>
    /\ pcall = NoCall
    /\ OthersIdle

SortSpec == SortInit /\ [][Next]_vars

\* renders that save to a file, and direct str2file calls, on one disk
FileInit ==
    /\ fs \in {f \in ConfigFileSystems : f.is_dir}
    /\ \E fp \in {"out.txt", "d/out.txt"} :
          self = Construct([DefaultArgs EXCEPT !.filepath = fp])
    /\ ret = NotCalled
    /\ disk \in Disks
    /\ stdout = <<>>
    /\ pcall = NoWriteCall
    /\ OthersIdle

FileNext == call_str2file \/ file_tree_display

FileSpec == FileInit /\ [][FileNext]_vars

\* an instance whose filter sets are changed between renders
FilterInit ==
    /\ fs = [root_name |-> N_R, is_dir |-> TRUE,
             tree |-> Dir("none", <<SubDir(N_b, Dir("none", <<File(N_a)>>)),
                                    SubDir(N_a, Dir("none", <<File(N_f)>>)), File(N_a)>>)]
    /\ self = Construct([DefaultArgs EXCEPT !.save2file = FALSE])
    /\ ret = NotCalled
    /\ disk = EmptyDisk
    /\ stdout = <<>>
    /\ pcall = NoCall
    /\ OthersIdle

FilterNext == set_filter_set \/ call_update_predicates \/ init \/ file_tree_display

FilterSpec == FilterInit /\ [][FilterNext]_vars

\* an instance whose sort key is changed between renders, on files whose
\* names differ in length
KeyInit ==
    /\ \E l \in Listings({File(N_a), File(Str2("b", "b")), File(N_f10)}, MaxNames) :
          fs = [root_name |-> N_R, is_dir |-> TRUE, tree |-> Dir("none", l)]
    /\ \E f \in CustomSorts, name \in {"natural", "custom"} :
          self = Construct([DefaultArgs EXCEPT !.custom_sort = f, !.sort_key_name = name,
                                               !.save2file = FALSE])
    /\ ret = NotCalled
    /\ disk = EmptyDisk
    /\ stdout = <<>>
    /\ pcall = NoCall
    /\ OthersIdle

KeyNext == set_custom_sort \/ set_sort_key_name \/ file_tree_display

KeySpec == KeyInit /\ [][KeyNext]_vars

\* the allow and block items of the predicate specification
PredItems ==
    {Str1("a"), Str2("a", "b"), Str2("a", "*"), Str1("?"), Str3("[", "a", "]"), Str1("[")}

PredInit ==
    /\ fs = [root_name |-> N_R, is_dir |-> TRUE, tree |-> NoDir]
    /\ \E allow \in SUBSET PredItems, block \in SUBSET PredItems :
          self = Construct([DefaultArgs EXCEPT !.include_dirs = allow,
                                               !.ignore_dirs = block])
    /\ ret = NotCalled
    /\ disk = EmptyDisk
    /\ stdout = <<>>
    /\ pcall = NoCall
    /\ OthersIdle

PredNext == call_dir_filter

PredSpec == PredInit /\ [][PredNext]_vars

\* the renderer before any call
FtdIdle ==
    /\ fs = [root_name |-> N_R, is_dir |-> TRUE, tree |-> NoDir]
    /\ self = Construct(DefaultArgs)
    /\ ret = NotCalled
    /\ disk = EmptyDisk
    /\ stdout = <<>>
    /\ pcall = NoCall

\* the command line
CliInit ==
    /\ FtdIdle
    /\ cli \in MergeInputs
    /\ importer = NewImporter
    /\ ports = NoRelease
    /\ timer = NoTimedCall
CliNext == call_merge_config
CliSpec == CliInit /\ [][CliNext]_vars

\* one Importer instance, called any number of times
ImportInit == FtdIdle /\ OthersIdle
ImportNext == call_import_mod_from_lib
ImportSpec == ImportInit /\ [][ImportNext]_vars

\* one PortsRelease instance
PortsInit ==
    /\ FtdIdle
    /\ cli = NoMerge
    /\ importer = NewImporter
    /\ ports \in ReleaseInputs
    /\ timer = NoTimedCall
PortsNext == call_release_all
PortsSpec == PortsInit /\ [][PortsNext]_vars

\* one decorated function
TimerInit ==
    /\ FtdIdle
    /\ cli = NoMerge
    /\ importer = NewImporter
    /\ ports = NoRelease
    /\ timer \in TimedInputs
TimerNext == call_sync_wrapper
TimerSpec == TimerInit /\ [][TimerNext]_vars

(***************************************************************************)
(* Reading a finished render                                               *)
(***************************************************************************)
Done == ret.kind = "return"
\* the render reached the file sink and str2file raised
WriteFailed == ret.walked /\ self.save2file /\ self.filepath # "None" /\ ~disk.writable
Items == ret.items
\* the connectors of the style the render used
St == self.style_dict[self.style]

Parent(path) == SubSeq(path, 1, Len(path) - 1)
IsPrefixPath(p, q) == Len(p) <= Len(q) /\ SubSeq(q, 1, Len(p)) = p
EntryIdx(items) == {i \in 1..Len(items) : items[i].kind = "entry"}
ChildrenIdx(items, p) == {i \in EntryIdx(items) : Parent(items[i].path) = p}
PlaceholderIdx(items, p) ==
    {i \in 1..Len(items) : items[i].kind = "placeholder" /\ items[i].path = p}
\* the directories the walk enumerated: the root and every directory entry shown
Visited(items) == {<<>>} \cup {items[i].path : i \in {j \in EntryIdx(items) : items[j].isdir}}
IdxOf(items, p) == CHOOSE i \in EntryIdx(items) : items[i].path = p
\* the entry is the last one its listing emitted
IsLastSibling(items, i) ==
    \A j \in ChildrenIdx(items, Parent(items[i].path)) : j <= i
\* the name as displayed
Shown(item) == IF item.isdir THEN item.path[Len(item.path)] \o <<"/">>
               ELSE item.path[Len(item.path)]
\* the line without the displayed name
BeforeName(item) == SubSeq(item.text, 1, Len(item.text) - Len(Shown(item)))
\* the line without connector and displayed name
PrefixOf(items, i) ==
    LET conn == IF IsLastSibling(items, i) THEN St.end ELSE St.branch
    IN  SubSeq(items[i].text, 1, Len(items[i].text) - Len(Shown(items[i])) - Len(conn))
ExtensionOf(items, i) == IF IsLastSibling(items, i) THEN St.space ELSE St.vertical

\* the directory at path below dir
RECURSIVE DirAt(_, _)
DirAt(dir, path) ==
    IF path = <<>> THEN dir
    ELSE LET i == CHOOSE k \in 1..Len(dir.entries) : dir.entries[k].name = Head(path)
         IN  DirAt(dir.entries[i].sub, Tail(path))

\* the entry is kept by the filter that the walk applies to it
Passes(obj, e) ==
    CASE e.kind = "dir" -> CallPredicate(obj.dir_filter, e.name)
      [] e.kind \in {"file", "link"} -> CallPredicate(obj.file_filter, e.name)
      [] OTHER -> FALSE

\* the paths of the entries of listing p of the given kind, in emission order
Group(items, p, isdir) ==
    LET InGroup(it) == it.kind = "entry" /\ Parent(it.path) = p /\ it.isdir = isdir
        sel == SelectSeq(items, InGroup)
    IN  [k \in 1..Len(sel) |-> sel[k].path]

RECURSIVE SplitLines(_)
SplitLines(text) ==
    IF NL \notin CharSet(text) THEN <<text>>
    ELSE LET k == CHOOSE i \in 1..Len(text) :
                     text[i] = NL /\ \A j \in 1..(i - 1) : text[j] # NL
         IN  <<SubSeq(text, 1, k - 1)>> \o SplitLines(SubSeq(text, k + 1, Len(text)))

(***************************************************************************)
(* C1                                                                      *)
(***************************************************************************)
\* the name matches some item of the set: a literal by equality, a glob
\* pattern as a whole
Matches(name, set) ==
    \E item \in set : IF IsPattern(item) THEN GlobMatch(item, name) ELSE item = name

\* C1: the predicate built from (allow, block) is true when both sets are
\* empty, "matches no block item" when only block is non-empty, "matches some
\* allow item" when only allow is non-empty, and "not blocked and allowed"
\* when both are non-empty.
C1_DecisionTable ==
    pcall.called =>
        LET allow == self.include_dirs
            block == self.ignore_dirs
            n == pcall.name
        IN  pcall.res =
               (CASE allow = {} /\ block = {} -> TRUE
                  [] allow = {} /\ block # {} -> ~Matches(n, block)
                  [] allow # {} /\ block = {} -> Matches(n, allow)
                  [] OTHER -> ~Matches(n, block) /\ Matches(n, allow))

\* a name matching both sets was passed to the predicate and rejected
C1_Witness ==
    /\ pcall.called
    /\ Matches(pcall.name, self.include_dirs)
    /\ Matches(pcall.name, self.ignore_dirs)
    /\ ~pcall.res

(***************************************************************************)
(* C2                                                                      *)
(***************************************************************************)
\* C2: when enumerating a subdirectory fails with a permission error, the
\* placeholder line is the prefix the subdirectory's children would carry (the
\* prefix of the subdirectory's own line plus its space or vertical extension)
\* followed by '[Permission Denied]'.
C2_PlaceholderAtPrefixDepth ==
    Done =>
        \A j \in 1..Len(Items) :
            (/\ Items[j].kind = "placeholder"
             /\ Items[j].path # <<>>
             /\ DirAt(fs.tree, Items[j].path).err = "PermissionError")
            => LET i == IdxOf(Items, Items[j].path)
               IN  Items[j].text =
                      PrefixOf(Items, i) \o ExtensionOf(Items, i) \o PERMISSION_DENIED

(***************************************************************************)
(* C3                                                                      *)
(***************************************************************************)
\* the same tree with every failing directory readable and empty
RECURSIVE Repaired(_)
Repaired(dir) ==
    IF dir.err # "none" THEN Dir("none", <<>>)
    ELSE Dir("none", [i \in 1..Len(dir.entries) |->
                         [dir.entries[i] EXCEPT !.sub = Repaired(@)]])

EntryTexts(items) ==
    LET IsEntry(it) == it.kind = "entry"
    IN  Texts(SelectSeq(items, IsEntry))

\* C3: when enumeration of a directory fails during file_tree_display, no
\* exception reaches the caller, and the lines of all entries are those of the
\* render in which the failing directories are readable and empty.
C3_ErrorsContained ==
    (ret.walked /\ ~WriteFailed) =>
        /\ Done
        /\ EntryTexts(Items) =
              Texts(Render([fs EXCEPT !.tree = Repaired(@)], self).items)

\* a subdirectory failed with an error other than a permission error, and an
\* entry with a subtree of its own was listed after it
C3_Witness ==
    /\ Done
    /\ \E j \in 1..Len(Items) :
          /\ Items[j].kind = "placeholder"
          /\ Items[j].path # <<>>
          /\ DirAt(fs.tree, Items[j].path).err = "OSError"
          /\ \E k \in EntryIdx(Items) : k > j + 1 /\ Len(Items[k].path) = 2

(***************************************************************************)
(* C4                                                                      *)
(***************************************************************************)
\* the directory is readable, holds entries, and the filters exclude them all
AllExcluded(dir) ==
    /\ dir.err = "none"
    /\ dir.entries # <<>>
    /\ \A i \in 1..Len(dir.entries) :
          dir.entries[i].kind # "bad" /\ ~Passes(self, dir.entries[i])

\* C4: for each directory visited there is a placeholder line exactly when
\* its enumeration fails: one '[Permission Denied]' line for a permission
\* error, one '[Error reading directory]' line for any other OS error, and no
\* entry line of that directory; a readable directory whose entries are all
\* excluded yields no line at all.
C4_PlaceholderIffFailure ==
    Done =>
        /\ \A j \in 1..Len(Items) :
              Items[j].kind = "placeholder" => Items[j].path \in Visited(Items)
        /\ \A p \in Visited(Items) :
              LET dir == DirAt(fs.tree, p)
                  ph == PlaceholderIdx(Items, p)
                  ch == ChildrenIdx(Items, p)
              IN  /\ dir.err = "PermissionError" =>
                        /\ Cardinality(ph) = 1 /\ ch = {}
                        /\ \A j \in ph : EndsWith(Items[j].text, PERMISSION_DENIED)
                  /\ dir.err \notin {"none", "PermissionError"} =>
                        /\ Cardinality(ph) = 1 /\ ch = {}
                        /\ \A j \in ph : EndsWith(Items[j].text, READ_ERR)
                  /\ dir.err = "none" => ph = {}
                  /\ AllExcluded(dir) => ch = {}

\* one visited directory failed with an OS error that is no permission error,
\* and another visited directory holds only excluded entries
C4_Witness ==
    /\ Done
    /\ \E p \in Visited(Items) :
          /\ DirAt(fs.tree, p).err = "OSError"
          /\ PlaceholderIdx(Items, p) # {}
    /\ \E p \in Visited(Items) : AllExcluded(DirAt(fs.tree, p))

(***************************************************************************)
(* C5                                                                      *)
(***************************************************************************)
CountNL(text) == Cardinality({i \in 1..Len(text) : text[i] = NL})

TextShape ==
    /\ StartsWith(ret.value, fs.root_name \o <<"/">>)
    /\ CountNL(ret.value) = Len(Items)
    /\ SplitLines(ret.value) = <<fs.root_name \o <<"/">>>> \o Texts(Items)
    /\ ~EndsWith(ret.value, <<NL>>)

UsesEnd(item) == EndsWith(BeforeName(item), St.end)
UsesBranch(item) == EndsWith(BeforeName(item), St.branch)

\* C6: in every listing with at least one entry, each entry line carries
\* exactly one connector: 'end' for the entry emitted last, 'branch' for every
\* other one, so exactly one entry of the listing uses 'end'.
C6_OneEndPerListing ==
    Done =>
        \A p \in Visited(Items) :
            LET ch == ChildrenIdx(Items, p)
            IN  ch # {} =>
                  /\ \A i \in ch : UsesEnd(Items[i]) # UsesBranch(Items[i])
                  /\ \A i \in ch : UsesEnd(Items[i]) <=> IsLastSibling(Items, i)
                  /\ Cardinality({i \in ch : UsesEnd(Items[i])}) = 1

\* a listing of three entries and, below it, a listing of two
C6_Witness ==
    /\ Done
    /\ Cardinality(ChildrenIdx(Items, <<>>)) >= 3
    /\ \E p \in Visited(Items) : p # <<>> /\ Cardinality(ChildrenIdx(Items, p)) >= 2

(***************************************************************************)
(* C7                                                                      *)
(***************************************************************************)
\* one extension per ancestor, from the root down
AncestorPrefix(items, path) ==
    Concat([k \in 1..(Len(path) - 1) |->
               ExtensionOf(items, IdxOf(items, SubSeq(path, 1, k)))])

\* C7: the lines of the children of a directory entry D emitted with prefix P
\* start with P followed by 'space' when D is the last sibling of its listing
\* and by 'vertical' otherwise; so the prefix of any line is the concatenation,
\* from the root down, of one extension per ancestor.
C7_PrefixFromAncestors ==
    Done =>
        /\ \A i \in EntryIdx(Items) :
              Items[i].isdir =>
                 \A j \in ChildrenIdx(Items, Items[i].path) :
                     StartsWith(Items[j].text,
                                PrefixOf(Items, i) \o ExtensionOf(Items, i))
        /\ \A j \in EntryIdx(Items) :
              PrefixOf(Items, j) = AncestorPrefix(Items, Items[j].path)

\* an entry three levels down with one ancestor that is a last sibling and one
\* that is not
C7_Witness ==
    /\ Done
    /\ \E j \in EntryIdx(Items) :
          /\ Len(Items[j].path) = 3
          /\ ~IsLastSibling(Items, IdxOf(Items, SubSeq(Items[j].path, 1, 1)))
          /\ IsLastSibling(Items, IdxOf(Items, SubSeq(Items[j].path, 1, 2)))

(***************************************************************************)
(* C8                                                                      *)
(***************************************************************************)
\* the lines that come from below the directory entry at index i
SubtreeIdx(items, i) ==
    {j \in 1..Len(items) : j # i /\ IsPrefixPath(items[i].path, items[j].path)}

\* C8: the line sequence is a depth-first pre-order walk: the lines of a
\* directory's subtree follow its own line immediately and contiguously, so no
\* line of a later sibling comes before the subtree of an earlier one is
\* complete.
C8_PreOrder ==
    Done =>
        \A i \in EntryIdx(Items) :
            SubtreeIdx(Items, i) = (i + 1)..(i + Cardinality(SubtreeIdx(Items, i)))

\* a directory with lines below it, followed by a later sibling
C8_Witness ==
    /\ Done
    /\ \E i \in EntryIdx(Items) :
          /\ Cardinality(SubtreeIdx(Items, i)) >= 2
          /\ ~IsLastSibling(Items, i)

(***************************************************************************)
(* C9                                                                      *)
(***************************************************************************)
\* the tree without the excluded files and without the excluded directories
\* and their subtrees, the enumeration order kept
RECURSIVE Pruned(_, _)
Pruned(dir, obj) ==
    LET Keep(e) == e.kind = "bad" \/ Passes(obj, e)
        kept == SelectSeq(dir.entries, Keep)
    IN  Dir(dir.err, [i \in 1..Len(kept) |->
                         IF kept[i].kind = "dir"
                         THEN [kept[i] EXCEPT !.sub = Pruned(@, obj)]
                         ELSE kept[i]])

Unfiltered(obj) ==
    [obj EXCEPT !.include_dirs = {}, !.ignore_dirs = {},
                !.include_files = {}, !.ignore_files = {},
                !.dir_filter = build_predicate({}, {}),
                !.file_filter = build_predicate({}, {})]

\* C9: rendering a tree with filters gives exactly the lines of rendering,
\* with no filters, the tree from which every excluded file and every excluded
\* directory with its subtree is deleted.
C9_FilterBeforeOrder ==
    Done =>
        Texts(Items) =
           Texts(Render([fs EXCEPT !.tree = Pruned(@, self)], Unfiltered(self)).items)

\* the entry that would be emitted last in the root listing is excluded, and
\* other entries remain
C9_Witness ==
    /\ Done
    /\ Len(Items) >= 2
    /\ LET all == Render(fs, Unfiltered(self)).items
           last == CHOOSE i \in ChildrenIdx(all, <<>>) : IsLastSibling(all, i)
       IN  /\ ChildrenIdx(all, <<>>) # {}
           /\ \A j \in 1..Len(Items) : Items[j].path # all[last].path

(***************************************************************************)
(* C10                                                                     *)
(***************************************************************************)
\* C10: at every level, with files_first all file entries come before all
\* subdirectory entries and without it all subdirectory entries come before
\* all file entries; the order inside the file group and inside the directory
\* group is the same for both settings.
C10_FilesFirst ==
    Done =>
        LET other == Render(fs, [self EXCEPT !.files_first = ~@]).items
        IN  \A p \in Visited(Items) :
               /\ \A i, j \in ChildrenIdx(Items, p) :
                     (~Items[i].isdir /\ Items[j].isdir) =>
                         IF self.files_first THEN i < j ELSE j < i
               /\ Group(Items, p, TRUE) = Group(other, p, TRUE)
               /\ Group(Items, p, FALSE) = Group(other, p, FALSE)

\* files_first is set and a listing holds two files and a directory
C10_Witness ==
    /\ Done
    /\ self.files_first
    /\ \E p \in Visited(Items) :
          /\ Len(Group(Items, p, FALSE)) >= 2
          /\ Len(Group(Items, p, TRUE)) >= 1

(***************************************************************************)
(* C11                                                                     *)
(***************************************************************************)
ValidStyle == self.style \in DOMAIN self.style_dict
\* no file and no directory was created, nothing was printed
NoOutput == DOMAIN disk.files = {} /\ disk.dirs = {"."} /\ stdout = <<>>

\* C11: file_tree_display raises NotADirectoryError when the root is not a
\* directory, whatever the style, and ValueError when the root is a directory
\* and the style name is not in style_dict; in both cases no directory was
\* enumerated, no file was written and nothing was printed.
C11_ValidationBeforeOutput ==
    ret.kind # "none" =>
        /\ ~fs.is_dir => (ret = Raise("NotADirectoryError") /\ NoOutput)
        /\ (fs.is_dir /\ ~ValidStyle) => (ret = Raise("ValueError") /\ NoOutput)

\* a call with both sinks set whose root is no directory and whose style is unknown
C11_Witness ==
    /\ ret.kind = "raise"
    /\ ~fs.is_dir /\ ~ValidStyle
    /\ self.save2file /\ self.printout /\ self.filepath # "None" /\ disk.writable

(***************************************************************************)
(* C12                                                                     *)
(***************************************************************************)
\* the sort key name is 'natural', 'lex', or 'custom' with a function supplied
KeyNameOk ==
    \/ self.sort_key_name \in {"natural", "lex"}
    \/ self.sort_key_name = "custom" /\ self.custom_sort # "None"

\* the render failed before the walk started and left no output
FailedBeforeWalk == ret.kind = "raise" /\ ~ret.walked /\ NoOutput

\* C12 as stated: for every configuration, a render whose sort key name is
\* unrecognized, or 'custom' without a function, fails before the traversal
\* starts with nothing written or printed; with 'natural', 'lex' or 'custom'
\* with a function the render does not fail at the sort key step.
C12_SortKeyValidated ==
    ret.kind # "none" =>
        /\ ~KeyNameOk => FailedBeforeWalk
        /\ (KeyNameOk /\ fs.is_dir /\ ValidStyle) => ret.walked

\* C12 amended: the same for every configuration in which skip_sorting is not
\* set, the error being ValueError when root and style are valid; when
\* skip_sorting is set the key name is not examined and the walk starts.
C12_SortKeyValidatedUnlessSkipped ==
    ret.kind # "none" =>
        /\ (~KeyNameOk /\ ~self.skip_sorting) =>
              /\ FailedBeforeWalk
              /\ (fs.is_dir /\ ValidStyle) => ret = Raise("ValueError")
        /\ ((KeyNameOk \/ self.skip_sorting) /\ fs.is_dir /\ ValidStyle) => ret.walked

\* 'custom' without a function on a valid root and style, both sinks set
C12_Witness ==
    /\ ret = Raise("ValueError")
    /\ fs.is_dir /\ ValidStyle /\ ~self.skip_sorting
    /\ self.sort_key_name = "custom" /\ self.custom_sort = "None"
    /\ self.save2file /\ self.printout /\ self.filepath # "None" /\ disk.writable

(***************************************************************************)
(* C13                                                                     *)
(***************************************************************************)
IsConnectorSet(v) == DOMAIN v = {"branch", "end", "vertical", "space"}

\* C13: each format_style call accepts 'classic', 'dash', 'arrow', 'plus', the
\* plain-character style ' ' and every style the caller added to style_dict,
\* returning its four connector strings, and raises ValueError for every
\* other style name.
C13_StyleResolution ==
    [][pcall' # pcall =>
          IF pcall'.name \in {"classic", "dash", "arrow", "plus", " "} \cup DOMAIN self.style_dict
          THEN /\ pcall'.res.kind = "return"
               /\ IsConnectorSet(pcall'.res.value)
               /\ pcall'.name \in DOMAIN self.style_dict =>
                     pcall'.res.value = self.style_dict[pcall'.name]
          ELSE pcall'.res = Raise("ValueError")]_vars

(***************************************************************************)
(* C14                                                                     *)
(***************************************************************************)
\* the paths of the entries of dir (at path p) that the walk keeps in the
\* directory group or in the file group, in enumeration order
RawGroup(obj, dir, p, isdir) ==
    LET Keep(e) == Passes(obj, e) /\ ((e.kind = "dir") = isdir)
        sel == SelectSeq(dir.entries, Keep)
    IN  [k \in 1..Len(sel) |-> p \o <<sel[k].name>>]

\* in every directory enumerated, both groups are in enumeration order
KeepsEnumOrder ==
    \A p \in Visited(Items) :
        DirAt(fs.tree, p).err = "none" =>
            \A isdir \in BOOLEAN :
                Group(Items, p, isdir) = RawGroup(self, DirAt(fs.tree, p), p, isdir)

\* C14: a render whose sort key name is empty or 'none' does not fail, and
\* the entries of every directory appear in enumeration order.
C14_EmptyKeyDisablesSorting ==
    (ret.kind # "none" /\ self.sort_key_name \in {"", "none"}
        /\ fs.is_dir /\ ValidStyle /\ ~WriteFailed)
    => (Done /\ KeepsEnumOrder)

(***************************************************************************)
(* C15                                                                     *)
(***************************************************************************)
\* C15: when skip_sorting is set, in every directory the directory group and
\* the file group are in enumeration order, and the render with the opposite
\* value of reverse gives the same result.
C15_SkipSortingKeepsOrder ==
    (Done /\ self.skip_sorting) =>
        /\ KeepsEnumOrder
        /\ Render(fs, [self EXCEPT !.reverse = ~self.reverse]) = ret

\* reverse is set and the root's directories were enumerated, and are shown,
\* in ascending order
C15_Witness ==
    /\ Done /\ self.skip_sorting /\ self.reverse
    /\ Group(Items, <<>>, TRUE) = << <<N_a>>, <<N_b>> >>

(***************************************************************************)
(* C16                                                                     *)
(***************************************************************************)
\* the names of a group, in emission order
GroupNames(items, p, isdir) ==
    [k \in 1..Len(Group(items, p, isdir)) |-> Group(items, p, isdir)[k][Len(p) + 1]]

\* the key function the render resolved
ResolvedKey == self.sort_keys[self.sort_key_name]

\* no name is followed by a name with a smaller key
NonDecreasing(names, key) ==
    \A i \in 1..(Len(names) - 1) : ~KeyLess(key, names[i + 1], names[i])

\* the names of the root that the render has to order, per group
RootNames(isdir) ==
    {fs.tree.entries[i].name :
        i \in {j \in 1..Len(fs.tree.entries) : (fs.tree.entries[j].kind = "dir") = isdir}}

\* C16: with key 'natural' or 'lex' and reverse unset the render succeeds for
\* every set of names, each group is non-decreasing in the key, and the names
\* f1, f2, f10 come out as f1, f2, f10 with 'natural' and as f1, f10, f2 with 'lex'.
C16_NaturalAndLexOrder ==
    (ret.kind # "none" /\ self.sort_key_name \in {"natural", "lex"} /\ ~self.reverse) =>
        /\ Done
        /\ \A isdir \in BOOLEAN :
              /\ NonDecreasing(GroupNames(Items, <<>>, isdir), ResolvedKey)
              /\ RootNames(isdir) = {N_f1, N_f2, N_f10} =>
                    GroupNames(Items, <<>>, isdir) =
                        IF self.sort_key_name = "natural" THEN <<N_f1, N_f2, N_f10>>
                        ELSE <<N_f1, N_f10, N_f2>>

(***************************************************************************)
(* C17                                                                     *)
(***************************************************************************)
\* the render of the same filesystem with the opposite value of reverse
Opposite == Render(fs, [self EXCEPT !.reverse = ~self.reverse])

\* which lines are directories, in emission order
KindSeq(items) == [i \in 1..Len(items) |-> items[i].isdir]

\* both groups of the opposite render are the reversed groups of this one,
\* and files and directories come in the same group order
ReversesGroups ==
    /\ Opposite.kind = "return"
    /\ \A isdir \in BOOLEAN :
          GroupNames(Opposite.items, <<>>, isdir) = Reverse(GroupNames(Items, <<>>, isdir))
    /\ KindSeq(Opposite.items) = KindSeq(Items)

\* any two different names of a group have different sort keys
DistinctKeys ==
    \A isdir \in BOOLEAN : \A x, y \in RootNames(isdir) :
        x # y => (KeyLess(ResolvedKey, x, y) \/ KeyLess(ResolvedKey, y, x))

\* C17 as stated: with sorting enabled, each group rendered with reverse=true
\* is exactly the reverse of the group rendered with reverse=false, also for
\* names with equal sort keys, and the group order set by files_first is the same.
C17_ReverseReversesGroups == Done => ReversesGroups

\* C17 amended: the same, for directories in which no two names of a group
\* have equal sort keys.
C17_ReverseReversesDistinctKeys == (Done /\ DistinctKeys) => ReversesGroups

\* three files enumerated as f2, f10, f1 come out as f10, f2, f1 with the
\* natural key and reverse set
C17_Witness ==
    /\ Done /\ self.reverse /\ self.sort_key_name = "natural"
    /\ Len(fs.tree.entries) = 3
    /\ fs.tree.entries[1].name = N_f2
    /\ GroupNames(Items, <<>>, FALSE) = <<N_f10, N_f2, N_f1>>

(***************************************************************************)
(* C18                                                                     *)
(***************************************************************************)
\* the output path: the explicit one, else '<root-name>_filetree.txt'
ResolvedPath == IF self.filepath # "None" THEN self.filepath ELSE "R_filetree.txt"

\* the file at path p holds what writing the text leaves there
FileHolds(p, text) ==
    p \in DOMAIN disk.files /\ disk.files[p] = TranslateOut(text, disk.linesep)

\* C18: whenever save2file is set, a successful render leaves the artifact in
\* the file at the resolved output path, also when no filepath was given.
C18_SaveWritesResolvedPath == (Done /\ self.save2file) => FileHolds(ResolvedPath, ret.value)

WriteRoundTrip ==
    (call_str2file /\ pcall'.res = "none") =>
        /\ read_text(disk'.files[pcall'.name]) = pcall'.content
        /\ \A p \in DOMAIN disk.files \ {pcall'.name} : disk'.files[p] = disk.files[p]

\* after a render that saved its text, reading the file gives the text returned
RenderRoundTrip ==
    (file_tree_display /\ ret'.kind = "return") =>
        read_text(disk'.files[self.filepath]) = ret'.value

\* C20 as stated: after every successful str2file write in mode 'w', whatever
\* was written to the path before, reading the file back gives exactly the
\* content of that write, and the file saved by a render reads back as the
\* text the render returned.
C20_RoundTrip == [][WriteRoundTrip /\ RenderRoundTrip]_vars

\* C20 amended: the same for contents, and rendered texts, that hold no
\* carriage return.
C20_RoundTripNoCarriageReturn ==
    [][/\ (call_str2file /\ CR \notin CharSet(pcall'.content)) => WriteRoundTrip
       /\ (file_tree_display /\ CR \notin CharSet(ret'.value)) => RenderRoundTrip]_vars

\* on a platform whose line separator is CRLF, a text with a newline replaced
\* the file's earlier content and reads back unchanged
C20_Witness ==
    /\ pcall.called /\ pcall.res = "none" /\ pcall.replaced
    /\ disk.linesep = "CRLF"
    /\ pcall.content = Str3("a", NL, "b")
    /\ disk.files[pcall.name] # pcall.content
    /\ read_text(disk.files[pcall.name]) = pcall.content

(***************************************************************************)
(* C21                                                                     *)
(***************************************************************************)
\* the symbolic links to directories that the walk met: <<p, name>> for a
\* link called name in the enumerated directory p
LinksMet ==
    UNION {{<<p, DirAt(fs.tree, p).entries[i].name>> :
               i \in {k \in 1..Len(DirAt(fs.tree, p).entries) :
                         DirAt(fs.tree, p).entries[k].kind = "link"}} :
           p \in {q \in Visited(Items) : DirAt(fs.tree, q).err = "none"}}

\* the lines of the entry at path
LinesOf(path) == {i \in EntryIdx(Items) : Items[i].path = path}

\* C21 as stated: a symbolic link to a directory is kept exactly when the
\* directory filter accepts its name, and its line ends with '/'.
C21_LinkIsDirectory ==
    Done =>
        \A pn \in LinksMet :
            /\ CallPredicate(self.dir_filter, pn[2]) <=> LinesOf(pn[1] \o <<pn[2]>>) # {}
            /\ \A i \in LinesOf(pn[1] \o <<pn[2]>>) : EndsWith(Items[i].text, <<"/">>)

\* C21 amended: a symbolic link to a directory is kept exactly when the file
\* filter accepts its name; its line is a file line, without '/', and no
\* line lies below it.
C21_LinkIsFile ==
    Done =>
        \A pn \in LinksMet :
            /\ CallPredicate(self.file_filter, pn[2]) <=> LinesOf(pn[1] \o <<pn[2]>>) # {}
            /\ \A i \in LinesOf(pn[1] \o <<pn[2]>>) :
                  /\ ~Items[i].isdir
                  /\ ~EndsWith(Items[i].text, <<"/">>)
                  /\ \A j \in 1..Len(Items) :
                        IsPrefixPath(Items[i].path, Items[j].path) => j = i

\* a link whose name the directory filter blocks and the file filter accepts
\* is shown
C21_Witness ==
    /\ Done
    /\ \E pn \in LinksMet :
          /\ ~CallPredicate(self.dir_filter, pn[2])
          /\ CallPredicate(self.file_filter, pn[2])
          /\ LinesOf(pn[1] \o <<pn[2]>>) # {}

(***************************************************************************)
(* C22                                                                     *)
(***************************************************************************)
\* the constructor arguments that give the current attributes of obj
ArgsOf(obj) == [k \in DOMAIN DefaultArgs |-> obj[k]]

\* the two predicates reflect the current sets
Reflects(obj) ==
    /\ obj.dir_filter = build_predicate(obj.include_dirs, obj.ignore_dirs)
    /\ obj.file_filter = build_predicate(obj.include_files, obj.ignore_files)

\* C22: a render leaves the predicates alone; a change of one of the four
\* sets leaves the predicates and the outcome of a render alone;
\* update_predicates and init make new predicate objects that reflect the
\* current sets, so that a render is that of a fresh instance with these sets.
C22_PredicatesFromLastBuild ==
    [][/\ file_tree_display => self' = self
       /\ set_filter_set =>
             /\ self'.dir_filter = self.dir_filter /\ self'.file_filter = self.file_filter
             /\ self'.built = self.built
             /\ Render(fs, self') = Render(fs, self)
       /\ (call_update_predicates \/ init) =>
             /\ self'.built > self.built
             /\ Reflects(self')
             /\ Render(fs, self') = Render(fs, Construct(ArgsOf(self')))]_vars

\* a render made after ignore_dirs was changed without update_predicates:
\* the directory now ignored is still shown
C22_Witness ==
    /\ Done
    /\ self.ignore_dirs = {N_a} /\ ~Reflects(self)
    /\ \E i \in EntryIdx(Items) : Items[i].path = <<N_a>> /\ Items[i].isdir

(***************************************************************************)
(* C23                                                                     *)
(***************************************************************************)
\* C23: for every indent, 0 included, the space and the vertical segment of
\* the style are indent characters wide, and every entry line at depth d
\* (d = 0 for the root's entries) has d * indent characters before its connector.
C23_IndentWidth ==
    Done =>
        /\ Len(St.space) = self.indent
        /\ Len(St.vertical) = self.indent
        /\ \A i \in EntryIdx(Items) :
              Len(PrefixOf(Items, i)) = (Len(Items[i].path) - 1) * self.indent

(***************************************************************************)
(* C24: merge_config merges the config file with the command line so that, *)
(* for every option, a value given on the command line overrides the       *)
(* config-file value, and an option not given on the command line keeps    *)
(* the value from the config file.                                         *)
(***************************************************************************)
C24_CliOverridesFileKeepsRest ==
    cli.called =>
        \A d \in Dests :
            /\ d \in cli.argv => (d \in DOMAIN cli.merged /\ cli.merged[d] = ArgValue(d))
            /\ (d \notin cli.argv /\ d \in DOMAIN cli.cfg_dict) =>
                   (d \in DOMAIN cli.merged /\ cli.merged[d] = cli.cfg_dict[d])

(***************************************************************************)
(* C25: for any sequence of import_mod_from_lib calls: a call whose        *)
(* module_name is already in the cache returns the cached object without   *)
(* performing an import, whichever library is named; a successful import   *)
(* adds exactly the entry module_name -> imported module and returns it; a *)
(* failed import (module not found) raises ImportError and leaves the      *)
(* cache unchanged; no call ever removes or replaces a cache entry.        *)
(***************************************************************************)
\* the call just made was answered from the cache before
CacheHit == importer'.module_name \in DOMAIN importer.imported_modules

\* the cache after the call is the cache before plus module_name -> mod
AddsExactly(mod) ==
    /\ DOMAIN importer'.imported_modules =
          DOMAIN importer.imported_modules \cup {importer'.module_name}
    /\ importer'.imported_modules[importer'.module_name] = mod

C25_CacheOnlyGrows ==
    [][call_import_mod_from_lib =>
          /\ \A k \in DOMAIN importer.imported_modules :
                /\ k \in DOMAIN importer'.imported_modules
                /\ importer'.imported_modules[k] = importer.imported_modules[k]
          /\ CacheHit =>
                /\ importer'.kind = "return"
                /\ importer'.value = importer.imported_modules[importer'.module_name]
                /\ importer'.imports = 0
                /\ importer'.imported_modules = importer.imported_modules
          /\ (~CacheHit /\ import_module(importer'.library, importer'.module_name)
                              = "module") =>
                /\ importer'.kind = "return"
                /\ importer'.value = Module(importer'.library, importer'.module_name)
                /\ AddsExactly(importer'.value)
          /\ (~CacheHit /\ import_module(importer'.library, importer'.module_name)
                              = "ModuleNotFoundError") =>
                /\ importer'.kind = "raise"
                /\ importer'.exc = "ImportError"
                /\ importer'.imported_modules = importer.imported_modules]_vars

\* a call answered from a cache of three modules with the module of another
\* library than the one named
C25_Witness ==
    /\ importer.kind = "return"
    /\ importer.imports = 0
    /\ importer.value.library # importer.library
    /\ importer.value.module_name = importer.module_name
    /\ Cardinality(DOMAIN importer.imported_modules) = 3

(***************************************************************************)
(* C26: release_all handles the ports in list order (default_ports when no *)
(* list is given) and never raises: a non-integer port is logged as        *)
(* invalid and gets no PID lookup; a port for which no PID is found gets   *)
(* no kill; kill_process is called only with the PID just found for that   *)
(* port, at most once per port; and a kill that fails does not stop the    *)
(* processing of the later ports.                                          *)
(***************************************************************************)
\* the log positions holding events of kind k for the port at position pos
EventsOf(k, pos) ==
    {j \in 1..Len(ports.log) : ports.log[j].kind = k /\ ports.log[j].pos = pos}

\* the list positions release_all got to
Handled == {ports.log[j].pos : j \in 1..Len(ports.log)}

C26_ReleaseAllInOrder ==
    ports.called =>
        /\ ports.exc = "none"
        /\ ports.list = (IF ports.arg.is_none THEN default_ports ELSE ports.arg.list)
        /\ \E h \in 0..Len(ports.list) :
              /\ Handled = 1..h
              /\ h < Len(ports.list) => EventsOf("error:unexpected_error", h) # {}
        /\ \A j \in 1..Len(ports.log) :
              /\ ports.log[j].port = ports.list[ports.log[j].pos]
              /\ j > 1 => ports.log[j - 1].pos <= ports.log[j].pos
        /\ \A pos \in Handled :
              /\ ~ports.list[pos].isint =>
                    /\ Cardinality(EventsOf("error:invalid_port", pos)) = 1
                    /\ EventsOf("get_pid_by_port", pos) = {}
                    /\ EventsOf("kill_process", pos) = {}
              /\ ports.list[pos].isint => Cardinality(EventsOf("get_pid_by_port", pos)) = 1
              /\ (ports.env[pos].lookup = "raise" \/ ports.env[pos].pid = NoPid) =>
                    EventsOf("kill_process", pos) = {}
              /\ Cardinality(EventsOf("kill_process", pos)) <= 1
              /\ \A j \in EventsOf("kill_process", pos) :
                    /\ ports.log[j].pid = ports.env[pos].pid
                    /\ \E i \in EventsOf("get_pid_by_port", pos) : i < j
              /\ (EventsOf("error:terminate_failed", pos) # {} /\ pos < Len(ports.list)) =>
                    pos + 1 \in Handled

\* a failed kill at the first port, an invalid second port, and a kill with
\* another PID at the third
C26_Witness ==
    /\ ports.called
    /\ Len(ports.list) = 3
    /\ EventsOf("error:terminate_failed", 1) # {}
    /\ EventsOf("error:invalid_port", 2) # {}
    /\ \E j \in EventsOf("kill_process", 3) : ports.log[j].pid # ports.env[1].pid

(***************************************************************************)
(* C27: for a function decorated with timeit(iterations=k, timeout=t): in  *)
(* cumulative mode TimeoutError is raised right after the first iteration  *)
(* i at which the summed duration of iterations 1..i exceeds t, in         *)
(* per-iteration mode right after the first iteration whose own duration   *)
(* exceeds t; in both cases no later iteration is run and no timing        *)
(* message is logged; when the timeout is never exceeded (or is unset) the *)
(* function is run exactly k times, one timing message is logged, and the  *)
(* result of the last run is returned.                                     *)
(***************************************************************************)
RECURSIVE SumTo(_, _)
SumTo(d, i) == IF i = 0 THEN 0 ELSE SumTo(d, i - 1) + d[i]

\* the iterations at which the timeout of the call is exceeded
Exceeding ==
    {i \in 1..timer.iterations :
        /\ ~timer.timeout.is_none
        /\ (IF timer.per_iteration THEN timer.durations[i] ELSE SumTo(timer.durations, i))
              > timer.timeout.s * NS_IN_SEC}

C27_TimeoutOrAllRuns ==
    timer.called =>
        IF Exceeding # {}
        THEN /\ timer.res.exc = "TimeoutError"
             /\ timer.res.runs \in Exceeding
             /\ \A i \in Exceeding : timer.res.runs <= i
             /\ timer.res.messages = 0
        ELSE /\ timer.res.kind = "return"
             /\ timer.res.runs = timer.iterations
             /\ timer.res.messages = 1
             /\ timer.res.value = timer.iterations

(***************************************************************************)
(* C28: a render terminates on every finite filesystem, including one that *)
(* contains symbolic links forming a cycle: the walk never descends        *)
(* through a symbolic link, every real directory is enumerated at most     *)
(* once, and every directory reached is eventually fully emitted.          *)
(***************************************************************************)
\* the entry at a non-empty path below dir
EntryAt(dir, path) ==
    LET holder == DirAt(dir, Parent(path))
        i == CHOOSE k \in 1..Len(holder.entries) : holder.entries[k].name = path[Len(path)]
    IN  holder.entries[i]

\* the links met that close a cycle: the listing behind the link is the
\* listing of the directory holding it
CyclesMet ==
    {pn \in LinksMet :
        \A k \in 1..Len(DirAt(fs.tree, pn[1]).entries) :
            /\ k <= Len(EntryAt(fs.tree, pn[1] \o <<pn[2]>>).sub.entries)
            /\ EntryAt(fs.tree, pn[1] \o <<pn[2]>>).sub.entries[k].name
                  = DirAt(fs.tree, pn[1]).entries[k].name}

\* the names of the lines listed for directory p
NamesListed(p) == {Items[i].path[Len(Items[i].path)] : i \in ChildrenIdx(Items, p)}

\* the names directory p holds that the filters keep
NamesKept(p) ==
    {DirAt(fs.tree, p).entries[k].name :
        k \in {n \in 1..Len(DirAt(fs.tree, p).entries) :
                  Passes(self, DirAt(fs.tree, p).entries[n])}}

NoDescentThroughLinks ==
    /\ \A pn \in LinksMet :
          /\ pn[1] \o <<pn[2]>> \notin Visited(Items)
          /\ \A j \in 1..Len(Items) :
                IsPrefixPath(pn[1] \o <<pn[2]>>, Items[j].path) =>
                    /\ Items[j].path = pn[1] \o <<pn[2]>>
                    /\ Items[j].kind = "entry"
    /\ \A p \in Visited(Items) : p # <<>> => EntryAt(fs.tree, p).kind = "dir"
    /\ \A i, j \in EntryIdx(Items) : Items[i].path = Items[j].path => i = j
    /\ \A p \in Visited(Items) :
          IF DirAt(fs.tree, p).err = "none"
          THEN /\ NamesListed(p) = NamesKept(p)
               /\ PlaceholderIdx(Items, p) = {}
          ELSE /\ Cardinality(PlaceholderIdx(Items, p)) = 1
               /\ ChildrenIdx(Items, p) = {}

VerbatimMatches ==
    /\ (self.ignore_dirs = {pcall.name} /\ self.include_dirs = {}) => ~pcall.res
    /\ (self.include_dirs = {pcall.name} /\ self.ignore_dirs = {}) => pcall.res

\* s holds a ']' after a '[': fnmatch reads a character class
HasBracketExpr(s) == \E i, j \in 1..Len(s) : i < j /\ s[i] = "[" /\ s[j] = "]"

\* C29 as stated.
C29_VerbatimAlwaysMatches == pcall.called => VerbatimMatches

\* C29 amended: the same for every string s in which no ']' follows a '[',
\* strings that contain '*', '?' or an unclosed '[' included; a string
\* holding a bracket expression is a character class and need not match
\* itself.
C29_VerbatimMatchesWithoutClass ==
    (pcall.called /\ ~HasBracketExpr(pcall.name)) => VerbatimMatches

\* a name holding '*' was rejected by the predicate whose block-set lists it
C29_Witness ==
    /\ pcall.called
    /\ pcall.name = Str2("a", "*")
    /\ self.ignore_dirs = {pcall.name}
    /\ self.include_dirs = {}
    /\ ~pcall.res

(***************************************************************************)
(* C30: a render with sort_key_name='custom' succeeds and orders entries   *)
(* with the instance's current custom_sort function whenever custom_sort   *)
(* holds a function at render time, including when that function was       *)
(* assigned to the attribute after construction; likewise the key used is  *)
(* never a function that was replaced or cleared before the render.        *)
(***************************************************************************)
\* the instance as it would be with the current custom_sort under 'custom'
WithCurrentCustomSort(obj) == [obj EXCEPT !.sort_keys.custom = obj.custom_sort]

C30_CustomSortIsCurrent ==
    [][(file_tree_display /\ self.sort_key_name = "custom") =>
          /\ self.custom_sort # "None" => ret'.kind = "return"
          /\ ret' = Render(fs, WithCurrentCustomSort(self))]_vars

====
